---- MODULE Spec2Model ----
(***************************************************************************)
(* Ingestion and persistence core of the Vultisig analytics pipeline:      *)
(* the swaps table behind DatabaseManager.insert_swaps, the write paths    *)
(* that reach it, the pagination walkers and the retrying fetch functions. *)
(***************************************************************************)
EXTENDS Integers, Sequences, FiniteSets, TLC

VARIABLES
    uq_tx_hash,     \* schema: swaps carries a unique index on tx_hash alone
    swaps,          \* committed rows of the swaps table
    conn,           \* per worker: the open insert_swaps transaction
    ret,            \* per worker: outcome of its last insert_swaps call
    calls,          \* number of write calls started so far
    reprocessed,    \* outcome of the last reprocess_transaction call
    last,           \* sequential caller: its latest insert_swaps call
    pair,           \* sequential caller: its latest two calls, applied in the other order
    now,            \* wall clock read by datetime.now()
    run,            \* one-page ingestion: its latest run
    req,            \* the page fetch in progress, inside its retry loop
    sync_status,    \* per source: its row of the sync_status table
    sw,             \* the pagination walk in progress: its locals
    mon,            \* what the provider and the store saw of that walk
    ing,            \* per AMM ingestor instance: its endpoint preference and latest fetch_data
    parsing,        \* the page of raw events handed to the parse loop last
    pool,           \* sync_all_sources: the scheduler thread and the futures of its pool
    resolved,       \* the latest parse_swap call: its raw event and what it returned
    arkham          \* the Arkham feed: what it lists, the dex_aggregator_revenue rows

vars == <<uq_tx_hash, swaps, conn, ret, calls, reprocessed, last, pair, now, run,
          req, sync_status, sw, mon, ing, parsing, pool, resolved, arkham>>

connVars == <<conn, ret, calls, reprocessed>>
seqVars == <<last, pair>>
runVars == <<now, run>>
fetchVars == <<req>>
walkVars == <<sync_status, sw, mon>>
serviceVars == <<ing, parsing, pool, resolved>>
feedVars == <<arkham>>

(***************************************************************************)
(* Bounds                                                                  *)
(***************************************************************************)
MaxBatchLen == 2     \* rows per insert_swaps batch
MaxCalls == 3        \* write calls started by the concurrent writers
MaxSeqCalls == 2     \* insert_swaps calls of the sequential caller
MaxRuns == 2         \* one-page ingestion runs
MaxRequests == 2     \* page fetches started
MaxAttempts == 8     \* HTTP attempts explored within one page fetch
MaxPageLen == 1      \* events on a page handed to a walker
MaxFetches == 6      \* pages explored within a walk that has no page limit of its own
MaxFetchCalls == 3   \* fetch_data calls made on one ingestor instance
MaxParses == 1       \* pages handed to the parse loop
MaxCycles == 2       \* sync cycles run one after the other
MaxResolves == 1     \* parse_swap calls on single raw events
MaxTicks == 2        \* runs of sync_all_sources: the initial one and scheduled ones
MaxTransfers == 4    \* transfers the Arkham feed comes to list

Workers == {"w1", "w2"}
TxHashes == {"tx1", "tx2"}
Times == {1, 2}
UsdValues == {10, 20}

(***************************************************************************)
(* The swaps table.  A row keeps the three key columns and three of the    *)
(* value columns: the two that reprocess_transaction overwrites and one    *)
(* (affiliate_fee_usd) that stands for every column no write path updates. *)
(***************************************************************************)
SwapRow(source, tx_hash, timestamp, in_usd, fee_usd, aff_usd) ==
    [source |-> source, tx_hash |-> tx_hash, timestamp |-> timestamp,
     in_amount_usd |-> in_usd, total_fee_usd |-> fee_usd,
     affiliate_fee_usd |-> aff_usd]

\* Rows a THORChain parse can hand to a write path: the value columns depend
\* on the prices seen at parse time, the key columns on the raw event.
ParsedRows ==
    { SwapRow("thorchain", h, t, v, v, v) : h \in TxHashes, t \in Times, v \in UsdValues }

\* The rows the sequential caller submits: two parses of one event at
\* different prices, the same transaction under another timestamp, and
\* another transaction.
SeqRows ==
    { SwapRow("thorchain", "tx1", 1, 10, 10, 10),
      SwapRow("thorchain", "tx1", 1, 20, 20, 20),
      SwapRow("thorchain", "tx1", 2, 10, 10, 10),
      SwapRow("thorchain", "tx2", 1, 10, 10, 10) }

Batches ==
    UNION { [1..n -> SeqRows] : n \in 1..MaxBatchLen }

\* ON CONFLICT (timestamp, tx_hash, source)
NaturalKey(r) == <<r.timestamp, r.tx_hash, r.source>>

ArbiterConflict(rows, r) ==
    \E s \in rows : NaturalKey(s) = NaturalKey(r)

\* A conflict on the unique index over tx_hash, which the arbiter of
\* insert_swaps does not absorb.
TxHashConflict(rows, r) ==
    uq_tx_hash /\ \E s \in rows : s.tx_hash = r.tx_hash

\* Mutant of InsertOutcome: the statement without its ON CONFLICT clause
\* acting as a filter (a plain INSERT into a table without the arbiter index).
InsertOutcomeNoArbiter(visible, r) ==
    IF TxHashConflict(visible, r) THEN "raise" ELSE "insert"

\* One INSERT ... ON CONFLICT (timestamp, tx_hash, source) DO NOTHING against
\* the rows the statement can see: "skip", "raise" or "insert".
InsertOutcome(visible, r) ==
    IF ArbiterConflict(visible, r) THEN "skip"
    ELSE IF TxHashConflict(visible, r) THEN "raise"
    ELSE "insert"

\* Mutant of ExecuteMany: the batch is abandoned at its first skipped row.
RECURSIVE ExecuteManyStopAtConflict(_, _, _, _)
ExecuteManyStopAtConflict(committed, batch, i, pending) ==
    IF i > Len(batch) THEN [raised |-> FALSE, pending |-> pending]
    ELSE LET o == InsertOutcome(committed \cup pending, batch[i]) IN
         IF o = "raise" THEN [raised |-> TRUE, pending |-> {}]
         ELSE IF o = "skip" THEN [raised |-> FALSE, pending |-> pending]
         ELSE ExecuteManyStopAtConflict(committed, batch, i + 1, pending \cup {batch[i]})

\* cursor.executemany over a batch, run alone: rows inserted so far (pending),
\* position i, starting from the committed rows.
RECURSIVE ExecuteMany(_, _, _, _)
ExecuteMany(committed, batch, i, pending) ==
    IF i > Len(batch) THEN [raised |-> FALSE, pending |-> pending]
    ELSE LET o == InsertOutcome(committed \cup pending, batch[i]) IN
         IF o = "raise" THEN [raised |-> TRUE, pending |-> {}]
         ELSE IF o = "skip" THEN ExecuteMany(committed, batch, i + 1, pending)
         ELSE ExecuteMany(committed, batch, i + 1, pending \cup {batch[i]})

\* insert_swaps run alone against a store: the store afterwards, the returned
\* rowcount and whether the call raised (and rolled back).
InsertSwaps(store, batch) ==
    LET x == ExecuteMany(store, batch, 1, {}) IN
    [swaps |-> IF x.raised THEN store ELSE store \cup x.pending,
     rowcount |-> IF x.raised THEN 0 ELSE Cardinality(x.pending),
     raised |-> x.raised]

(***************************************************************************)
(* Concurrent writers: insert_swaps statement by statement                 *)
(***************************************************************************)
IdleConn == [pc |-> "idle", n |-> 0, pending |-> {}]
NoReturn == [kind |-> "none", rowcount |-> 0]
NoCall == [n |-> 0, before |-> {}, batch |-> <<>>, rowcount |-> 0,
           raised |-> FALSE, repeat |-> FALSE]
NoPair == [valid |-> FALSE, other |-> {}, raised |-> FALSE, agree |-> FALSE]

\* No insert_swaps transaction is open and none has been made.
ConnInit ==
    /\ conn = [w \in Workers |-> IdleConn]
    /\ ret = [w \in Workers |-> NoReturn]
    /\ calls = 0
    /\ reprocessed = "none"

SeqInit ==
    /\ last = NoCall
    /\ pair = NoPair

NoRun == [n |-> 0, source |-> "", page |-> <<>>, before |-> {},
          raised |-> FALSE, repeat |-> FALSE]

\* The clock starts later than every timestamp a provider reports.
RunInit ==
    /\ now = 3
    /\ run = NoRun

\* No page fetch has been started.  A request keeps the locals of its retry
\* loop (retries, timeout, delay), the number of HTTP attempts made, the
\* response of the latest attempt, the sleep that followed it and the number
\* of gateway errors among the attempts.
NoSleep == [unit |-> "none", factor |-> 0]
NoRequest == [fn |-> "", pc |-> "idle", retries |-> 0, attempts |-> 0,
              timeout |-> 0, n |-> 0, last |-> "", slept |-> NoSleep, delay |-> 0,
              server_errors |-> 0]

FetchInit ==
    req = NoRequest

\* Python's None for a cursor.
NoToken == ""

SyncSources == {"thorchain", "lifi"}

\* The sources with a row in sync_status that sync_source writes to.
StatusSources == SyncSources \cup {"arkham"}

\* The sync_status row a source starts with.
SeedStatus == [next_page_token |-> NoToken, error_count |-> 0,
               last_error |-> FALSE, latest_data_timestamp |-> 0]

\* A response body: the events, and the cursor in the places the providers
\* put it (Midgard: nextPageToken or meta.nextPageToken; LiFi: next, hasNext).
NoData == [events |-> <<>>, nextPageToken |-> NoToken, meta |-> NoToken,
           next |-> NoToken, hasNext |-> FALSE]

\* The locals of a walk before any walk has started.
IdleWalk == [pc |-> "idle", walker |-> "", source |-> "",
             next_page_token |-> NoToken, pages_processed |-> 0,
             consecutive_zero_inserts |-> 0, consecutive_empty_pages |-> 0,
             data |-> NoData, latest_data_ts |-> 0, max_pages |-> 0,
             error_count_read |-> 0, stop |-> "", cycle |-> 0,
             last_saved_date |-> 0]

\* What has been observed of a walk that has fetched nothing yet: pages
\* fetched, the cursor the last page carried (anywhere, and at top level),
\* whether every fetch sent the cursor of the page before it, the empty and
\* the zero-insert pages in a row up to now, and whether a parsed page is
\* awaiting submission, was dropped or was submitted twice; for the page
\* fetched last, the insert_swaps calls made with its records and whether
\* each of its records has a row in the store.
NoWalkSeen == [fetches |-> 0, last_next |-> NoToken, last_top |-> NoToken,
               chained |-> TRUE, empty_run |-> 0, zero_run |-> 0,
               awaiting |-> FALSE, missed |-> FALSE, twice |-> FALSE,
               insert_calls |-> 0, kept |-> TRUE]

WalkInit ==
    /\ sync_status = [s \in StatusSources |-> SeedStatus]
    /\ sw = IdleWalk
    /\ mon = NoWalkSeen

AmmIngestors == {"thorchain", "mayachain"}

\* An AMM ingestor as constructed (current_endpoint_index = 0), together
\* with what its latest fetch_data call did: the endpoint indices it tried, in
\* order, how it ended, and the endpoint the call before it succeeded on
\* (-1 when there is none).
NewIngestor == [current_endpoint_index |-> 0, calls |-> 0, tried |-> <<>>,
                outcome |-> "none", prev_winner |-> -1]

EndpointInit ==
    ing = [x \in AmmIngestors |-> NewIngestor]

\* No page has been through the parse loop.
NoPage == [n |-> 0, source |-> "", page |-> <<>>, price |-> 0,
           swap_records |-> <<>>, aborted |-> FALSE]

ParseInit ==
    parsing = NoPage

\* The keys of SyncService.ingestors, in the order of the dict.
SourceOrder == <<"arkham", "thorchain", "mayachain", "lifi">>
ServiceSources == { SourceOrder[k] : k \in 1..Len(SourceOrder) }

\* No raw event has been handed to parse_swap on its own.
ResolveInit ==
    resolved = [n |-> 0, provider |-> "", raw |-> <<>>,
                info |-> [kind |-> "not_called"], swap |-> [kind |-> "none"]]

\* The service before its first sync_all_sources: the main thread is outside
\* the function, no future exists, no sync_source is executing.
PoolInit ==
    pool = [main |-> "idle", tick |-> 0, submitted |-> 0,
            fut |-> [src \in ServiceSources |-> "none"],
            collected |-> {},
            runs |-> [src \in ServiceSources |-> 0],
            left |-> ""]

\* The Arkham feed lists nothing yet, dex_aggregator_revenue is empty and
\* no ingest has run; the type of its timestamp column has not shown.
ArkhamInit ==
    arkham = [listed |-> 0, rows |-> {}, failures |-> 0, schema |-> "unknown",
              fetched |-> <<>>]

Init ==
    /\ uq_tx_hash \in BOOLEAN
    /\ swaps = {}
    /\ ConnInit
    /\ SeqInit
    /\ RunInit
    /\ FetchInit
    /\ WalkInit
    /\ EndpointInit
    /\ ParseInit
    /\ PoolInit
    /\ ResolveInit
    /\ ArkhamInit

\* Rows other open transactions have inserted and not yet committed.
PendingOfOthers(w) ==
    UNION { conn[v].pending : v \in Workers \ {w} }

\* with self.get_connection() as conn: with conn.cursor() as cursor:
BeginInsert(w) ==
    /\ conn[w].pc = "idle"
    /\ calls < MaxCalls
    /\ calls' = calls + 1
    /\ conn' = [conn EXCEPT ![w] = [pc |-> "open", n |-> 0, pending |-> {}]]
    /\ ret' = [ret EXCEPT ![w] = NoReturn]
    /\ UNCHANGED <<uq_tx_hash, feedVars, serviceVars, swaps, reprocessed, seqVars, runVars, fetchVars, walkVars>>

\* Mutant of ExecuteRow: every statement is committed on its own, so a
\* statement that raises leaves the rows before it in the table.
ExecuteRowKeepsEarlierRows(w, r) ==
    /\ conn[w].pc = "open"
    /\ conn[w].n < MaxBatchLen
    /\ LET o == InsertOutcome(swaps \cup conn[w].pending, r)
       IN /\ o = "skip" \/ ~ArbiterConflict(PendingOfOthers(w), r)
          /\ o = "skip" \/ ~TxHashConflict(PendingOfOthers(w), r)
          /\ IF o = "raise"
             THEN /\ conn' = [conn EXCEPT ![w] = IdleConn]
                  /\ ret' = [ret EXCEPT ![w] = [kind |-> "raised", rowcount |-> 0]]
                  /\ swaps' = swaps \cup conn[w].pending
             ELSE /\ conn' = [conn EXCEPT ![w].n = @ + 1,
                                          ![w].pending =
                                              IF o = "insert" THEN @ \cup {r} ELSE @]
                  /\ UNCHANGED <<ret, swaps>>
    /\ UNCHANGED <<uq_tx_hash, feedVars, serviceVars, calls, reprocessed, seqVars, runVars, fetchVars, walkVars>>

\* One statement of cursor.executemany, for the next row r of swaps_data.  A
\* statement whose row collides with an uncommitted row of another
\* transaction waits for that transaction, so the step is enabled only when
\* no such row exists.
ExecuteRow(w, r) ==
    /\ conn[w].pc = "open"
    /\ conn[w].n < MaxBatchLen
    /\ LET o == InsertOutcome(swaps \cup conn[w].pending, r)
       IN /\ o = "skip" \/ ~ArbiterConflict(PendingOfOthers(w), r)
          /\ o = "skip" \/ ~TxHashConflict(PendingOfOthers(w), r)
          /\ IF o = "raise"
             THEN /\ conn' = [conn EXCEPT ![w] = IdleConn]
                  /\ ret' = [ret EXCEPT ![w] = [kind |-> "raised", rowcount |-> 0]]
             ELSE /\ conn' = [conn EXCEPT ![w].n = @ + 1,
                                          ![w].pending =
                                              IF o = "insert" THEN @ \cup {r} ELSE @]
                  /\ UNCHANGED ret
    /\ UNCHANGED <<uq_tx_hash, feedVars, serviceVars, swaps, calls, reprocessed, seqVars, runVars, fetchVars, walkVars>>

\* conn.commit(); return cursor.rowcount
Commit(w) ==
    /\ conn[w].pc = "open"
    /\ conn[w].n >= 1
    /\ swaps' = swaps \cup conn[w].pending
    /\ ret' = [ret EXCEPT ![w] = [kind |-> "ok", rowcount |-> Cardinality(conn[w].pending)]]
    /\ conn' = [conn EXCEPT ![w] = IdleConn]
    /\ UNCHANGED <<uq_tx_hash, feedVars, serviceVars, calls, reprocessed, seqVars, runVars, fetchVars, walkVars>>

\* get_connection: any exception inside the block (connection loss, a
\* deadlock victim) rolls the transaction back and re-raises.
Rollback(w) ==
    /\ conn[w].pc = "open"
    /\ conn' = [conn EXCEPT ![w] = IdleConn]
    /\ ret' = [ret EXCEPT ![w] = [kind |-> "raised", rowcount |-> 0]]
    /\ UNCHANGED <<uq_tx_hash, feedVars, serviceVars, swaps, calls, reprocessed, seqVars, runVars, fetchVars, walkVars>>

\* Mutant of ReprocessedRow: DO UPDATE overwriting every inserted column.
ReprocessedRowAllColumns(old, new) ==
    new

\* The row reprocess_transaction leaves behind on a tx_hash conflict:
\* DO UPDATE SET in_amount_usd = EXCLUDED.in_amount_usd,
\*               total_fee_usd = EXCLUDED.total_fee_usd
ReprocessedRow(old, new) ==
    [old EXCEPT !.in_amount_usd = new.in_amount_usd,
                !.total_fee_usd = new.total_fee_usd]

\* INSERT ... ON CONFLICT (tx_hash) DO UPDATE against the committed rows.
ReprocessUpsert(store, r) ==
    IF \E s \in store : s.tx_hash = r.tx_hash
    THEN { IF s.tx_hash = r.tx_hash THEN ReprocessedRow(s, r) ELSE s : s \in store }
    ELSE store \cup {r}

\* reprocess_transaction for an error record whose raw_data parses to r.
\* Without a unique index on tx_hash the statement has no arbiter and raises;
\* the except branch returns False.  With it the statement is an upsert on
\* tx_hash, committed at once, and the function returns True.
ReprocessTransaction(r) ==
    /\ calls < MaxCalls
    /\ calls' = calls + 1
    /\ IF uq_tx_hash
       THEN /\ \A w \in Workers : \A s \in conn[w].pending : s.tx_hash # r.tx_hash
            /\ swaps' = ReprocessUpsert(swaps, r)
            /\ reprocessed' = "True"
       ELSE /\ swaps' = swaps
            /\ reprocessed' = "False"
    /\ UNCHANGED <<uq_tx_hash, feedVars, serviceVars, conn, ret, seqVars, runVars, fetchVars, walkVars>>

Next ==
    \/ \E w \in Workers : BeginInsert(w)
    \/ \E w \in Workers, r \in ParsedRows : ExecuteRow(w, r)
    \/ \E w \in Workers : Commit(w)
    \/ \E w \in Workers : Rollback(w)
    \/ \E r \in ParsedRows : ReprocessTransaction(r)

Spec == Init /\ [][Next]_vars

(***************************************************************************)
(* A single caller: insert_swaps call after call                           *)
(***************************************************************************)
NaturalKeys(rows) == { NaturalKey(r) : r \in rows }

BatchRows(batch) == { batch[i] : i \in 1..Len(batch) }

\* The two batches carry no two different rows for one natural key.
BatchesAgree(a, b) ==
    \A r, s \in BatchRows(a) \cup BatchRows(b) :
        NaturalKey(r) = NaturalKey(s) => r = s

\* db_manager.insert_swaps(swap_records), the whole call.  The record of the
\* call keeps the store it started from; pair keeps what the store would be
\* had this batch been applied before the previous one instead of after it.
CallInsertSwaps(batch) ==
    /\ last.n < MaxSeqCalls
    /\ LET res == InsertSwaps(swaps, batch)
           first == InsertSwaps(last.before, batch)
           second == InsertSwaps(first.swaps, last.batch)
       IN /\ swaps' = res.swaps
          /\ last' = [n |-> last.n + 1, before |-> swaps, batch |-> batch,
                      rowcount |-> res.rowcount, raised |-> res.raised,
                      repeat |-> last.n >= 1 /\ ~last.raised /\ batch = last.batch]
          /\ pair' = IF last.n = 0 THEN NoPair
                     ELSE [valid |-> TRUE, other |-> second.swaps,
                           raised |-> \/ last.raised \/ res.raised
                                      \/ first.raised \/ second.raised,
                           agree |-> BatchesAgree(last.batch, batch)]
    /\ UNCHANGED <<uq_tx_hash, feedVars, serviceVars, connVars, runVars, fetchVars, walkVars>>

NextSeq ==
    \E b \in Batches : CallInsertSwaps(b)

SpecSeq == Init /\ [][NextSeq]_vars

(***************************************************************************)
(* One-page ingestion: fetch, parse_swap on every event, insert_swaps      *)
(***************************************************************************)
\* A Midgard date is a decimal string: `digits` characters long, worth `secs`
\* seconds, and for the nanosecond form `nanos` nanoseconds more.
NsDate(secs, nanos) == [digits |-> 19, secs |-> secs, nanos |-> nanos]

\* The empty string, which raw_swap.get('date', '') yields for a missing date.
EmptyDate == [digits |-> 0, secs |-> 0, nanos |-> 0]

\* What the providers report in the one-page runs.  Each transaction has one
\* raw event; the second of each provider carries no usable time (an empty
\* date string, a missing or zero sending.timestamp); the third THORChain
\* action names no Vultisig affiliate.
ThorchainActions ==
    { [txID |-> "tx1", date |-> NsDate(1, 5), affiliate |-> "vi"],
      [txID |-> "tx2", date |-> EmptyDate, affiliate |-> "vi"],
      [txID |-> "tx3", date |-> NsDate(2, 0), affiliate |-> "t"] }

LifiTransfers ==
    { [transactionId |-> "tx1", timestamp |-> 2],
      [transactionId |-> "tx2", timestamp |-> 0] }

RawEvents(source) ==
    IF source = "lifi" THEN LifiTransfers ELSE ThorchainActions

Pages(source) ==
    UNION { [1..n -> RawEvents(source)] : n \in 1..MaxBatchLen }

\* BaseIngestor.parse_timestamp: strings longer than 10 characters are
\* nanoseconds and are floor-divided to seconds, shorter ones are seconds;
\* int('') raises ValueError and the result is datetime.now().
ParseTimestamp(date, clock) ==
    IF date.digits = 0 THEN clock
    ELSE IF date.digits > 10 THEN date.secs
    ELSE date.secs

\* parse_swap returning None.
NoSwap == SwapRow("none", "", 0, 0, 0, 0)

\* config.VULTISIG_AFFILIATES
VultisigAffiliates == {"va", "vi", "v0"}

\* THORChainIngestor.parse_swap, key columns and price-dependent columns;
\* None for an action without a Vultisig affiliate.
ThorchainParseSwap(action, clock, price) ==
    IF action.affiliate \notin VultisigAffiliates THEN NoSwap
    ELSE SwapRow("thorchain", action.txID, ParseTimestamp(action.date, clock),
                 price, price, price)

\* LiFiIngestor.parse_swap: a falsy sending.timestamp becomes datetime.now().
LifiParseSwap(transfer, clock) ==
    SwapRow("lifi", transfer.transactionId,
            IF transfer.timestamp # 0 THEN transfer.timestamp ELSE clock,
            10, 10, 10)

ParseSwap(source, event, clock, price) ==
    IF source = "lifi" THEN LifiParseSwap(event, clock)
    ELSE ThorchainParseSwap(event, clock, price)

\* swap_records of a page: every event parsed, the i-th one tick after the
\* one before it, and the results that are not None kept in order.
SwapRecords(source, page, clock, price) ==
    LET parsed == [i \in 1..Len(page) |-> ParseSwap(source, page[i], clock + i - 1, price)]
    IN SelectSeq(parsed, LAMBDA r : r # NoSwap)

\* run_thorchain / run_lifi: one page fetched, parsed and inserted.
RunIngestor(source, page, price) ==
    /\ run.n < MaxRuns
    /\ LET swap_records == SwapRecords(source, page, now, price)
           res == IF swap_records = <<>>
                  THEN [swaps |-> swaps, rowcount |-> 0, raised |-> FALSE]
                  ELSE InsertSwaps(swaps, swap_records)
       IN /\ swaps' = res.swaps
          /\ run' = [n |-> run.n + 1, source |-> source, page |-> page,
                     before |-> swaps, raised |-> res.raised,
                     repeat |-> /\ run.n >= 1 /\ ~run.raised
                                /\ source = run.source /\ page = run.page]
    /\ now' = now + Len(page)
    /\ UNCHANGED <<uq_tx_hash, feedVars, serviceVars, connVars, seqVars, fetchVars, walkVars>>

NextIngest ==
    \E source \in {"thorchain", "lifi"}, price \in UsdValues :
        \E page \in Pages(source) : RunIngestor(source, page, price)

SpecIngest == Init /\ [][NextIngest]_vars

(***************************************************************************)
(* Parsing a page: parse_swap on raw events of any shape                   *)
(***************************************************************************)
ParseSources == {"thorchain", "mayachain", "lifi"}

\* An element of data['actions'] as the JSON decoder hands it over: the kind
\* of JSON value it is, whether raw_swap['in'][0] with its txID and coins is
\* there, whether the coin amount is a decimal string, the affiliate named,
\* whether an output to the Vultisig affiliate is listed, and the key fields.
RawAction(json, has_in, amount_numeric, affiliate, fee_output, txID, date) ==
    [json |-> json, has_in |-> has_in, amount_numeric |-> amount_numeric,
     affiliate |-> affiliate, fee_output |-> fee_output, txID |-> txID, date |-> date]

\* Midgard actions of the shapes parse_swap tells apart: two well-formed
\* swaps, one without an `in` list, a JSON null, one with a non-numeric
\* amount, one of another affiliate, one without the affiliate fee output.
ActionShapes ==
    { RawAction("object", TRUE, TRUE, "vi", TRUE, "tx1", NsDate(1, 5)),
      RawAction("object", TRUE, TRUE, "va", TRUE, "tx2", NsDate(2, 0)),
      RawAction("object", FALSE, TRUE, "vi", TRUE, "", NsDate(1, 5)),
      RawAction("null", FALSE, FALSE, "", FALSE, "", EmptyDate),
      RawAction("object", TRUE, FALSE, "vi", TRUE, "tx1", NsDate(1, 5)),
      RawAction("object", TRUE, TRUE, "t", TRUE, "tx1", NsDate(1, 5)),
      RawAction("object", TRUE, TRUE, "vi", FALSE, "tx1", NsDate(1, 5)) }

\* LiFi transfers of the shapes parse_swap tells apart: two well-formed
\* ones, a JSON null, one whose `sending` is null, one whose
\* sending.timestamp is a string.
TransferShapes ==
    { [json |-> "object", sending |-> "object", timestamp_numeric |-> TRUE,
       transactionId |-> "tx1", timestamp |-> 1],
      [json |-> "object", sending |-> "object", timestamp_numeric |-> TRUE,
       transactionId |-> "tx2", timestamp |-> 2],
      [json |-> "null", sending |-> "null", timestamp_numeric |-> FALSE,
       transactionId |-> "", timestamp |-> 0],
      [json |-> "object", sending |-> "null", timestamp_numeric |-> FALSE,
       transactionId |-> "tx1", timestamp |-> 0],
      [json |-> "object", sending |-> "object", timestamp_numeric |-> FALSE,
       transactionId |-> "tx1", timestamp |-> 1] }

RawShapes(source) ==
    IF source = "lifi" THEN TransferShapes ELSE ActionShapes

ParsePrices == {10}

RawPages(source) ==
    UNION { [1..n -> RawShapes(source)] : n \in 1..MaxBatchLen }

\* An exception leaving a function, in the place of its return value.
ParseRaised == SwapRow("raised", "", 0, 0, 0, 0)

\* The try block of THORChainIngestor.parse_swap and of
\* MayaChainIngestor.parse_swap: raw_swap.get on a value that is no dict,
\* raw_swap['in'][0] on a missing list and float() of a non-numeric amount
\* raise (MayaChain converts with safe_float, which does not); an action
\* without a Vultisig affiliate or without its fee output returns None.
AmmParseBody(source, raw_swap, clock, price) ==
    IF raw_swap.json # "object" THEN ParseRaised
    ELSE IF ~raw_swap.has_in THEN ParseRaised
    ELSE IF source = "thorchain" /\ ~raw_swap.amount_numeric THEN ParseRaised
    ELSE IF raw_swap.affiliate \notin VultisigAffiliates THEN NoSwap
    ELSE IF ~raw_swap.fee_output THEN NoSwap
    ELSE SwapRow(source, raw_swap.txID, ParseTimestamp(raw_swap.date, clock),
                 price, price, price)

\* The try block of LiFiIngestor.parse_swap: raw_transfer.get on a value
\* that is no dict, sending.get on a null `sending` and
\* datetime.fromtimestamp of a string raise.
LifiParseBody(raw_transfer, clock) ==
    IF raw_transfer.json # "object" THEN ParseRaised
    ELSE IF raw_transfer.sending # "object" THEN ParseRaised
    ELSE IF ~raw_transfer.timestamp_numeric THEN ParseRaised
    ELSE SwapRow("lifi", raw_transfer.transactionId,
                 IF raw_transfer.timestamp # 0 THEN raw_transfer.timestamp ELSE clock,
                 10, 10, 10)

ParseBody(source, raw, clock, price) ==
    IF source = "lifi" THEN LifiParseBody(raw, clock)
    ELSE AmmParseBody(source, raw, clock, price)

\* Mutant of ExceptReturnsNone: the handler logs the error and re-raises.
ExceptReraises(result) ==
    result

\* except Exception as e: logger.error(...); return None
ExceptReturnsNone(result) ==
    IF result = ParseRaised THEN NoSwap ELSE result

\* parse_swap of an ingestor: its try block under its except clause.
TryParseSwap(source, raw, clock, price) ==
    ExceptReturnsNone(ParseBody(source, raw, clock, price))

\* The parse loop of sync_source over the events of a fetched page: each
\* result that is not None is appended to swap_records; an exception leaving
\* parse_swap leaves the loop too, and the page is not submitted.
ParsePage(source, page, price) ==
    /\ parsing.n < MaxParses
    /\ LET results == [i \in 1..Len(page) |->
                          TryParseSwap(source, page[i], now + i - 1, price)]
           raised == \E i \in 1..Len(page) : results[i] = ParseRaised
       IN parsing' = [n |-> parsing.n + 1, source |-> source, page |-> page,
                     price |-> price,
                     swap_records |-> IF raised THEN <<>>
                                      ELSE SelectSeq(results, LAMBDA r : r # NoSwap),
                     aborted |-> raised]
    /\ now' = now + Len(page)
    /\ UNCHANGED <<uq_tx_hash, feedVars, swaps, run, ing, pool, resolved, connVars, seqVars, fetchVars,
                   walkVars>>

NextParse ==
    \E source \in ParseSources, price \in ParsePrices :
        \E page \in RawPages(source) : ParsePage(source, page, price)

SpecParse == Init /\ [][NextParse]_vars

(***************************************************************************)
(* Page fetches: the retry loops of the three fetch functions              *)
(***************************************************************************)
MAX_RETRIES == 5
REQUEST_TIMEOUT == 120

\* max_retries of fetch_actions and of make_direct_api_call
FetchActionsMaxRetries == 5
DirectCallMaxRetries == 5

FetchFunctions == {"make_request", "fetch_actions", "make_direct_api_call"}

\* What one HTTP attempt can come back with: a body, a rate limit, a gateway
\* error (502/503/504), a read timeout, a connection error, any other error
\* status.
ResponseKinds == {"200", "429", "5xx", "timeout", "connection", "4xx"}

\* timeout= of the first requests.get of each function
InitialTimeout(fn) ==
    IF fn = "make_request" THEN REQUEST_TIMEOUT
    ELSE IF fn = "fetch_actions" THEN 60
    ELSE 90

\* time.sleep(base_delay * factor) and time.sleep(retry_after)
SleepBaseDelay(factor) == [unit |-> "base_delay", factor |-> factor]
SleepRetryAfter == [unit |-> "retry_after", factor |-> 1]

\* A fetch function is entered: retries = 0, and delay = base_delay in
\* fetch_actions.
StartRequest(fn) ==
    /\ req.pc # "running"
    /\ req.n < MaxRequests
    /\ req' = [fn |-> fn, pc |-> "running", retries |-> 0, attempts |-> 0,
               timeout |-> InitialTimeout(fn), n |-> req.n + 1, last |-> "",
               slept |-> NoSleep, delay |-> IF fn = "fetch_actions" THEN 1 ELSE 0,
               server_errors |-> 0]
    /\ UNCHANGED <<uq_tx_hash, feedVars, serviceVars, swaps, connVars, seqVars, runVars, walkVars>>

\* Mutant of MakeRequest: a gateway error is retried like a timeout, with a
\* doubling delay, until the retry ceiling.
MakeRequestBacksOffOnServerError(r, kind) ==
    LET retries == r.retries + 1 IN
    IF kind = "200" THEN [r EXCEPT !.pc = "returned", !.slept = SleepBaseDelay(1)]
    ELSE IF kind = "429"
    THEN [r EXCEPT !.retries = retries, !.slept = SleepRetryAfter,
                   !.pc = IF retries >= MAX_RETRIES THEN "raised" ELSE "running"]
    ELSE IF kind \in {"5xx", "timeout"}
    THEN [r EXCEPT !.retries = retries, !.slept = SleepBaseDelay(2 ^ retries),
                   !.pc = IF retries < MAX_RETRIES THEN "running" ELSE "raised"]
    ELSE [r EXCEPT !.pc = "raised", !.slept = NoSleep]

\* One pass of the loop of BaseIngestor.make_request.  Every pass that does
\* not leave the function counts a retry, and the loop runs while
\* retries < MAX_RETRIES.  A gateway error raises once the count reaches 2
\* and is otherwise followed by a sleep of base_delay * 2; a timeout is
\* followed by a sleep of base_delay * 2 ** retries; any other exception,
\* raise_for_status included, is re-raised.
MakeRequest(r, kind) ==
    LET retries == r.retries + 1 IN
    IF kind = "200" THEN [r EXCEPT !.pc = "returned", !.slept = SleepBaseDelay(1)]
    ELSE IF kind = "429"
    THEN [r EXCEPT !.retries = retries, !.slept = SleepRetryAfter,
                   !.pc = IF retries >= MAX_RETRIES THEN "raised" ELSE "running"]
    ELSE IF kind = "5xx"
    THEN IF retries >= 2
         THEN [r EXCEPT !.retries = retries, !.pc = "raised", !.slept = NoSleep]
         ELSE [r EXCEPT !.retries = retries, !.slept = SleepBaseDelay(2)]
    ELSE IF kind = "timeout"
    THEN [r EXCEPT !.retries = retries, !.slept = SleepBaseDelay(2 ^ retries),
                   !.pc = IF retries < MAX_RETRIES THEN "running" ELSE "raised"]
    ELSE [r EXCEPT !.pc = "raised", !.slept = NoSleep]

\* One pass of the while True loop of fetch_actions.  A 429 waits out the
\* cooldown and repeats the pass without counting it; a counted failure
\* sleeps `delay` and doubles it.
FetchActions(r, kind) ==
    LET retries == r.retries + 1 IN
    IF kind = "200" THEN [r EXCEPT !.pc = "returned", !.slept = NoSleep]
    ELSE IF kind = "429" THEN [r EXCEPT !.slept = SleepRetryAfter]
    ELSE IF kind \in {"5xx", "timeout"}
    THEN IF retries > FetchActionsMaxRetries
         THEN [r EXCEPT !.retries = retries, !.pc = "raised", !.slept = NoSleep]
         ELSE [r EXCEPT !.retries = retries, !.timeout = @ + 30,
                        !.slept = SleepBaseDelay(r.delay), !.delay = @ * 2]
    ELSE IF kind = "connection"
    THEN IF retries > FetchActionsMaxRetries
         THEN [r EXCEPT !.retries = retries, !.pc = "raised", !.slept = NoSleep]
         ELSE [r EXCEPT !.retries = retries,
                        !.slept = SleepBaseDelay(r.delay), !.delay = @ * 2]
    ELSE [r EXCEPT !.pc = "raised", !.slept = NoSleep]

\* One pass of the loop of DeepHistoricalSync.make_direct_api_call, which
\* runs while retries < max_retries.  A 429 sleeps and repeats the pass
\* without counting it; every other failure, raise_for_status included, is
\* counted and followed by a sleep of base_delay * 2 ** retries unless the
\* except Exception branch finds the count at max_retries.
MakeDirectApiCall(r, kind) ==
    LET retries == r.retries + 1 IN
    IF kind = "200" THEN [r EXCEPT !.pc = "returned", !.slept = NoSleep]
    ELSE IF kind = "429" THEN [r EXCEPT !.slept = SleepRetryAfter]
    ELSE IF kind \in {"5xx", "timeout"}
    THEN [r EXCEPT !.retries = retries, !.slept = SleepBaseDelay(2 ^ retries),
                   !.pc = IF retries < DirectCallMaxRetries THEN "running" ELSE "raised"]
    ELSE IF retries >= DirectCallMaxRetries
    THEN [r EXCEPT !.retries = retries, !.pc = "raised", !.slept = NoSleep]
    ELSE [r EXCEPT !.retries = retries, !.slept = SleepBaseDelay(2 ^ retries)]

\* One HTTP attempt of make_request and what the function does with it.
MakeRequestAttempt(kind) ==
    /\ req.fn = "make_request"
    /\ req.pc = "running"
    /\ req.attempts < MaxAttempts
    /\ req' = [MakeRequest(req, kind) EXCEPT
                  !.attempts = @ + 1, !.last = kind,
                  !.server_errors = IF kind = "5xx" THEN @ + 1 ELSE @]
    /\ UNCHANGED <<uq_tx_hash, feedVars, serviceVars, swaps, connVars, seqVars, runVars, walkVars>>

\* One HTTP attempt of fetch_actions and what the function does with it.
FetchActionsAttempt(kind) ==
    /\ req.fn = "fetch_actions"
    /\ req.pc = "running"
    /\ req.attempts < MaxAttempts
    /\ req' = [FetchActions(req, kind) EXCEPT
                  !.attempts = @ + 1, !.last = kind,
                  !.server_errors = IF kind = "5xx" THEN @ + 1 ELSE @]
    /\ UNCHANGED <<uq_tx_hash, feedVars, serviceVars, swaps, connVars, seqVars, runVars, walkVars>>

\* One HTTP attempt of make_direct_api_call and what the function does
\* with it.
MakeDirectApiCallAttempt(kind) ==
    /\ req.fn = "make_direct_api_call"
    /\ req.pc = "running"
    /\ req.attempts < MaxAttempts
    /\ req' = [MakeDirectApiCall(req, kind) EXCEPT
                  !.attempts = @ + 1, !.last = kind,
                  !.server_errors = IF kind = "5xx" THEN @ + 1 ELSE @]
    /\ UNCHANGED <<uq_tx_hash, feedVars, serviceVars, swaps, connVars, seqVars, runVars, walkVars>>

NextFetch ==
    \/ \E fn \in FetchFunctions : StartRequest(fn)
    \/ \E kind \in ResponseKinds : MakeRequestAttempt(kind)
    \/ \E kind \in ResponseKinds : FetchActionsAttempt(kind)
    \/ \E kind \in ResponseKinds : MakeDirectApiCallAttempt(kind)

SpecFetch == Init /\ [][NextFetch]_vars

(***************************************************************************)
(* Endpoint fallback: fetch_data of the two AMM ingestors                  *)
(***************************************************************************)
\* self.api_endpoints, by index
ThorchainEndpoints == <<0, 1, 2, 3>>
MayachainEndpoints == <<0, 1>>

\* Which endpoints answer during one fetch_data call.
EndpointsUp == SUBSET {0, 1, 2, 3}

\* The candidates a call goes through when it takes them in this order and
\* returns at the first one whose make_request returns.
TryInOrder(order, up) ==
    LET hits == { k \in 1..Len(order) : order[k] \in up }
        n == IF hits = {} THEN Len(order)
             ELSE CHOOSE k \in hits : \A j \in hits : k <= j
    IN SubSeq(order, 1, n)

\* The endpoint a finished call succeeded on, -1 when it raised or when no
\* call has been made.
Winner(me) ==
    IF me.outcome = "returned" THEN me.tried[Len(me.tried)] ELSE -1

\* THORChainIngestor.fetch_data: for i, endpoint in enumerate(api_endpoints),
\* from the first one on every call; the index of the endpoint that answered
\* is stored in current_endpoint_index.
ThorchainFetchData(up) ==
    /\ ing["thorchain"].calls < MaxFetchCalls
    /\ LET me == ing["thorchain"]
           tried == TryInOrder(ThorchainEndpoints, up)
           i == tried[Len(tried)]
       IN ing' = [ing EXCEPT !["thorchain"] =
                     [current_endpoint_index |->
                          IF i \in up THEN i ELSE me.current_endpoint_index,
                      calls |-> me.calls + 1,
                      tried |-> tried,
                      outcome |-> IF i \in up THEN "returned" ELSE "raised",
                      prev_winner |-> Winner(me)]]
    /\ UNCHANGED <<uq_tx_hash, feedVars, swaps, parsing, pool, resolved, connVars, seqVars, runVars,
                   fetchVars, walkVars>>

\* The order MayaChainIngestor.fetch_data goes through its endpoints: from
\* current_endpoint_index on, wrapping around, each one once.
MayachainOrder(current_endpoint_index) ==
    LET total_endpoints == Len(MayachainEndpoints)
    IN [k \in 1..total_endpoints |->
           MayachainEndpoints[((current_endpoint_index + k - 1) % total_endpoints) + 1]]

\* MayaChainIngestor.fetch_data: the endpoint at current_endpoint_index is
\* tried; a failure moves the index on by one, modulo the number of
\* endpoints, until one answers or each has failed once.
MayachainFetchData(up) ==
    /\ ing["mayachain"].calls < MaxFetchCalls
    /\ LET me == ing["mayachain"]
           total_endpoints == Len(MayachainEndpoints)
           tried == TryInOrder(MayachainOrder(me.current_endpoint_index), up)
           i == tried[Len(tried)]
           failures == IF i \in up THEN Len(tried) - 1 ELSE Len(tried)
       IN ing' = [ing EXCEPT !["mayachain"] =
                     [current_endpoint_index |->
                          (me.current_endpoint_index + failures) % total_endpoints,
                      calls |-> me.calls + 1,
                      tried |-> tried,
                      outcome |-> IF i \in up THEN "returned" ELSE "raised",
                      prev_winner |-> Winner(me)]]
    /\ UNCHANGED <<uq_tx_hash, feedVars, swaps, parsing, pool, resolved, connVars, seqVars, runVars,
                   fetchVars, walkVars>>

NextEndpoint ==
    \/ \E up \in EndpointsUp : ThorchainFetchData(up)
    \/ \E up \in EndpointsUp : MayachainFetchData(up)

SpecEndpoint == Init /\ [][NextEndpoint]_vars

(***************************************************************************)
(* Pagination walks: sync_source, historical_sync, deep_historical_fetch   *)
(***************************************************************************)
Cursors == {"c1", "c2"}

\* max_pages of sync_source, the zero-insert pages in a row after which it
\* stops, the empty pages in a row after which deep_historical_fetch stops,
\* and the default max_pages of deep_historical_fetch.
SyncMaxPages == 10
ZeroInsertLimit == 3
EmptyPageLimit == 3
DeepMaxPages == 1000

\* self.target_earliest_date, on the scale of the dates of the feed.
TargetEarliestDate == 1

\* max_pages handed to historical_sync: None (0) or a limit.
HistMaxPages == {0, 2}

\* What the providers hand to a walk: dated events of a few transactions,
\* the last THORChain action without a Vultisig affiliate.
ThorchainFeed ==
    { [txID |-> "f1", date |-> NsDate(1, 5), affiliate |-> "vi"],
      [txID |-> "f2", date |-> NsDate(2, 0), affiliate |-> "va"],
      [txID |-> "f3", date |-> NsDate(2, 3), affiliate |-> "v0"],
      [txID |-> "f4", date |-> NsDate(2, 8), affiliate |-> "vi"],
      [txID |-> "f5", date |-> NsDate(2, 0), affiliate |-> "t"] }

LifiFeed ==
    { [transactionId |-> "f1", timestamp |-> 1],
      [transactionId |-> "f2", timestamp |-> 2] }

FeedPrices == {10}

FeedEvents(source) ==
    IF source = "lifi" THEN LifiFeed ELSE ThorchainFeed

FeedPages(source) ==
    UNION { [1..n -> FeedEvents(source)] : n \in 0..MaxPageLen }

\* Where a Midgard body carries its cursor: nowhere, at top level, under meta.
MidgardTokens ==
    {<<NoToken, NoToken>>} \cup { <<c, NoToken>> : c \in Cursors }
                           \cup { <<NoToken, c>> : c \in Cursors }

\* The bodies fetch_data can return for a source.
Responses(source) ==
    IF source = "lifi"
    THEN { [events |-> p, nextPageToken |-> NoToken, meta |-> NoToken,
            next |-> c, hasNext |-> c # NoToken] :
              p \in FeedPages(source), c \in Cursors \cup {NoToken} }
    ELSE { [events |-> p, nextPageToken |-> t[1], meta |-> t[2],
            next |-> NoToken, hasNext |-> FALSE] :
              p \in FeedPages(source), t \in MidgardTokens }

\* The cursor a body carries for the page after it, wherever the provider
\* put it.
ProviderCursor(source, data) ==
    IF source = "lifi" THEN (IF data.hasNext THEN data.next ELSE NoToken)
    ELSE IF data.nextPageToken # NoToken THEN data.nextPageToken
    ELSE data.meta

\* Mutant of SyncNextToken: the cursor under meta is not looked at.
SyncNextTokenTopOnly(source, data) ==
    IF source = "lifi" THEN (IF data.hasNext THEN data.next ELSE NoToken)
    ELSE data.nextPageToken

\* next_token of sync_source:
\*   data.get('next') if data.get('hasNext', False) else None
\*   data.get('nextPageToken') or data.get('meta', {}).get('nextPageToken')
SyncNextToken(source, data) ==
    IF source = "lifi" THEN (IF data.hasNext THEN data.next ELSE NoToken)
    ELSE IF data.nextPageToken # NoToken THEN data.nextPageToken
    ELSE data.meta

\* next_token of historical_sync and of deep_historical_fetch:
\*   data.get('nextPageToken')
TopNextToken(data) ==
    data.nextPageToken

\* Mutant of ZeroInserts: a page that inserts rows leaves the count alone.
ZeroInsertsNoReset(count, inserted_count) ==
    IF inserted_count = 0 THEN count + 1 ELSE count

\* consecutive_zero_inserts after a page that inserted inserted_count rows.
ZeroInserts(count, inserted_count) ==
    IF inserted_count = 0 THEN count + 1 ELSE 0

\* Mutant of EmptyPages: a page with events leaves the count alone.
EmptyPagesNoReset(count, events) ==
    IF events = <<>> THEN count + 1 ELSE count

\* consecutive_empty_pages after a page with these events.
EmptyPages(count, events) ==
    IF events = <<>> THEN count + 1 ELSE 0

\* convert_timestamp_to_date: int(s) // 1_000_000_000, or None (-1).
ConvertTimestampToDate(date) ==
    IF date.digits = 0 THEN -1
    ELSE IF date.digits > 9 THEN date.secs
    ELSE 0

Min(a, b) == IF a < b THEN a ELSE b

\* A page has come back for the cursor `sent`.
SeenFetch(m, sent, source, data, has_records) ==
    [m EXCEPT !.fetches = @ + 1,
              !.chained = @ /\ sent = m.last_next,
              !.last_next = ProviderCursor(source, data),
              !.last_top = data.nextPageToken,
              !.empty_run = IF data.events = <<>> THEN Min(@ + 1, EmptyPageLimit) ELSE 0,
              !.missed = @ \/ m.awaiting,
              !.awaiting = has_records,
              !.insert_calls = 0,
              !.kept = ~has_records]

\* The page awaiting submission has been handed to insert_swaps and the
\* store went from `before` to `after`.
SeenSubmit(m, before, after) ==
    [m EXCEPT !.twice = @ \/ ~m.awaiting,
              !.awaiting = FALSE,
              !.insert_calls = @ + 1,
              !.zero_run = IF Cardinality(after) = Cardinality(before)
                           THEN Min(@ + 1, ZeroInsertLimit) ELSE 0]

\* After an insert_swaps call that returned: whether every record handed to
\* it has a row with its natural key in the store.
SeenKept(m, swap_records, after) ==
    [m EXCEPT !.kept = \A i \in 1..Len(swap_records) :
                           ArbiterConflict(after, swap_records[i])]

\* An insert_swaps call with the records of the page has raised.
SeenInsertFailed(m) ==
    [m EXCEPT !.insert_calls = @ + 1]

\* A page with events but no swap record has been passed over.
SeenNoRecords(m) ==
    [m EXCEPT !.zero_run = Min(@ + 1, ZeroInsertLimit)]

\* The walk is over; its page is dropped from the locals.
Stopped(w, why) ==
    [w EXCEPT !.pc = "done", !.stop = why, !.data = NoData, !.latest_data_ts = 0]

\* except Exception of sync_source: update_sync_status(error_count =
\* sync_status.get('error_count', 0) + 1, last_error = str(e)), the row
\* being the one read before the loop.
FailedStatus(row, error_count_read) ==
    [row EXCEPT !.error_count = error_count_read + 1, !.last_error = TRUE]

\* Mutant of AfterInsert: an exception of insert_swaps is caught around the
\* call and the pass goes on to the cursor update.
AfterInsertIgnoresFailure(raised) ==
    "update"

\* Where a pass of the loop of sync_source goes after insert_swaps: on to
\* the cursor update, or with the exception to the except branch.
AfterInsert(raised) ==
    IF raised THEN "error" ELSE "update"

\* Mutant of AbandonedRows: the handler clears what the source has stored.
AbandonedRowsCleared(rows, source) ==
    { r \in rows : r.source # source }

\* The swaps table after the except branch of sync_source: the handler
\* issues no statement on it, and the rollback of get_connection is the
\* rollback of the one transaction that raised.
AbandonedRows(rows, source) ==
    rows

\* sync_source up to its loop: the status row is read (or the read fails
\* and an empty one is used), the locals are set.  latest_tx_hash stays
\* None, db_manager having no attribute conn: the AttributeError is caught
\* and logged, and the test for existing data in the loop is never true.
StartSyncSource(source, read_ok) ==
    /\ sw.pc = "idle"
    /\ sw' = [IdleWalk EXCEPT !.pc = "fetch", !.walker = "sync_source",
                              !.source = source, !.max_pages = SyncMaxPages,
                              !.error_count_read =
                                  IF read_ok THEN sync_status[source].error_count ELSE 0]
    /\ mon' = NoWalkSeen
    /\ UNCHANGED <<uq_tx_hash, feedVars, serviceVars, swaps, sync_status, connVars, seqVars, runVars, fetchVars>>

\* The first part of a pass of the loop of sync_source: the page is fetched
\* (an empty one ends the walk), parsed and its swap records inserted; the
\* zero-insert count is updated and may end the walk.  Of the page only the
\* cursor fields are read after this.
SyncPage(source, data, price) ==
    /\ sw.walker = "sync_source"
    /\ sw.pc = "fetch"
    /\ sw.source = source
    /\ LET swap_records == SwapRecords(sw.source, data.events, now, price)
           res == InsertSwaps(swaps, swap_records)
           inserted_count == IF swap_records = <<>> THEN 0 ELSE res.rowcount
           count == ZeroInserts(sw.consecutive_zero_inserts, inserted_count)
           seen == SeenFetch(mon, sw.next_page_token, sw.source, data,
                             swap_records # <<>>)
       IN IF data.events = <<>>
          THEN /\ sw' = Stopped(sw, "empty_page")
               /\ mon' = seen
               /\ UNCHANGED <<swaps, sync_status>>
          ELSE IF swap_records # <<>> /\ AfterInsert(res.raised) = "error"
          THEN /\ sync_status' = [sync_status EXCEPT
                                     ![sw.source] = FailedStatus(@, sw.error_count_read)]
               /\ sw' = Stopped(sw, "error")
               /\ mon' = SeenInsertFailed(seen)
               /\ swaps' = AbandonedRows(swaps, sw.source)
          ELSE /\ swaps' = IF swap_records = <<>> THEN swaps ELSE res.swaps
               /\ mon' = IF swap_records = <<>> THEN SeenNoRecords(seen)
                         ELSE SeenKept(SeenSubmit(seen, swaps, res.swaps),
                                       swap_records, res.swaps)
               /\ sw' = IF inserted_count = 0 /\ count >= ZeroInsertLimit
                        THEN [Stopped(sw, "caught_up") EXCEPT
                                  !.consecutive_zero_inserts = count]
                        ELSE [sw EXCEPT
                                  !.pc = "update",
                                  !.data = [data EXCEPT !.events = <<>>],
                                  !.consecutive_zero_inserts = count,
                                  !.latest_data_ts =
                                      IF swap_records # <<>> /\ sw.pages_processed = 0
                                      THEN swap_records[1].timestamp ELSE 0]
               /\ UNCHANGED sync_status
    /\ UNCHANGED <<uq_tx_hash, feedVars, serviceVars, connVars, seqVars, runVars, fetchVars>>

\* fetch_data raises: the except branch records the failure and breaks.
SyncFetchFails ==
    /\ sw.walker = "sync_source"
    /\ sw.pc = "fetch"
    /\ sync_status' = [sync_status EXCEPT
                          ![sw.source] = FailedStatus(@, sw.error_count_read)]
    /\ sw' = Stopped(sw, "error")
    /\ swaps' = AbandonedRows(swaps, sw.source)
    /\ UNCHANGED <<uq_tx_hash, feedVars, serviceVars, mon, connVars, seqVars, runVars, fetchVars>>

\* The page comes back and insert_swaps raises for a reason outside the
\* batch (the connection is lost): nothing is committed, the except branch
\* records the failure and breaks.
SyncPersistFails(source, data, price) ==
    /\ sw.walker = "sync_source"
    /\ sw.pc = "fetch"
    /\ sw.source = source
    /\ SwapRecords(sw.source, data.events, now, price) # <<>>
    /\ mon' = SeenInsertFailed(SeenFetch(mon, sw.next_page_token, sw.source, data, TRUE))
    /\ IF AfterInsert(TRUE) = "error"
       THEN /\ sync_status' = [sync_status EXCEPT
                                  ![sw.source] = FailedStatus(@, sw.error_count_read)]
            /\ sw' = Stopped(sw, "error")
            /\ swaps' = AbandonedRows(swaps, sw.source)
       ELSE /\ sw' = [sw EXCEPT !.pc = "update",
                                !.data = [data EXCEPT !.events = <<>>]]
            /\ UNCHANGED <<swaps, sync_status>>
    /\ UNCHANGED <<uq_tx_hash, feedVars, serviceVars, connVars, seqVars, runVars, fetchVars>>

\* Mutant of ReachedMaxPages: no page limit.
ReachedMaxPagesNever(pages_processed, max_pages) ==
    FALSE

\* pages_processed >= max_pages
ReachedMaxPages(pages_processed, max_pages) ==
    pages_processed >= max_pages

\* update_sync_status with the cursor of the page, then the end of the loop
\* body: no cursor, or max_pages reached, ends the walk.
SyncUpdate ==
    /\ sw.walker = "sync_source"
    /\ sw.pc = "update"
    /\ LET next_token == SyncNextToken(sw.source, sw.data)
       IN /\ sync_status' =
                [sync_status EXCEPT
                    ![sw.source] =
                        [next_page_token |-> next_token, error_count |-> 0,
                         last_error |-> FALSE,
                         latest_data_timestamp |->
                             IF sw.latest_data_ts # 0 THEN sw.latest_data_ts
                             ELSE @.latest_data_timestamp]]
          /\ sw' = IF next_token = NoToken THEN Stopped(sw, "no_next")
                   ELSE IF ReachedMaxPages(sw.pages_processed + 1, sw.max_pages)
                   THEN [Stopped(sw, "max_pages") EXCEPT
                             !.next_page_token = next_token,
                             !.pages_processed = @ + 1]
                   ELSE [sw EXCEPT !.pc = "fetch", !.data = NoData,
                                   !.latest_data_ts = 0,
                                   !.next_page_token = next_token,
                                   !.pages_processed = @ + 1]
    /\ UNCHANGED <<uq_tx_hash, feedVars, serviceVars, swaps, mon, connVars, seqVars, runVars, fetchVars>>

\* The rows DELETE FROM swaps WHERE source = 'thorchain' leaves.
DeleteSource(rows, source) ==
    { r \in rows : r.source # source }

\* historical_sync up to its loop: the THORChain rows are deleted, the
\* status row is reset.
StartHistorical(max_pages) ==
    /\ sw.pc = "idle"
    /\ swaps' = DeleteSource(swaps, "thorchain")
    /\ sync_status' = [sync_status EXCEPT
                          !["thorchain"] = [@ EXCEPT !.next_page_token = NoToken,
                                                     !.error_count = 0,
                                                     !.last_error = FALSE]]
    /\ sw' = [IdleWalk EXCEPT !.pc = "fetch", !.walker = "historical_sync",
                              !.source = "thorchain", !.max_pages = max_pages]
    /\ mon' = NoWalkSeen
    /\ UNCHANGED <<uq_tx_hash, feedVars, serviceVars, connVars, seqVars, runVars, fetchVars>>

\* One pass of the loop of historical_sync: the page is fetched, parsed and
\* inserted, the cursor read and stored, and the limit of the next pass
\* looked at.
HistPage(data, price) ==
    /\ sw.walker = "historical_sync"
    /\ sw.pc = "fetch"
    /\ mon.fetches < MaxFetches
    /\ LET swap_records == SwapRecords("thorchain", data.events, now, price)
           res == InsertSwaps(swaps, swap_records)
           next_token == TopNextToken(data)
           pages_processed == sw.pages_processed + 1
           seen == SeenFetch(mon, sw.next_page_token, "thorchain", data,
                             swap_records # <<>>)
           at == [sw EXCEPT !.pages_processed = pages_processed]
       IN IF data.events = <<>>
          THEN /\ sw' = Stopped(at, "empty_page")
               /\ mon' = seen
               /\ UNCHANGED <<swaps, sync_status>>
          ELSE IF swap_records # <<>> /\ res.raised
          THEN /\ sw' = Stopped(at, "error")
               /\ mon' = SeenInsertFailed(seen)
               /\ UNCHANGED <<swaps, sync_status>>
          ELSE /\ swaps' = IF swap_records = <<>> THEN swaps ELSE res.swaps
               /\ mon' = IF swap_records = <<>> THEN SeenNoRecords(seen)
                         ELSE SeenKept(SeenSubmit(seen, swaps, res.swaps),
                                       swap_records, res.swaps)
               /\ IF next_token = NoToken
                  THEN /\ sw' = Stopped(at, "no_next")
                       /\ UNCHANGED sync_status
                  ELSE /\ sync_status' =
                             [sync_status EXCEPT
                                 !["thorchain"] = [@ EXCEPT !.next_page_token = next_token,
                                                            !.error_count = 0,
                                                            !.last_error = FALSE]]
                       /\ sw' = IF /\ sw.max_pages # 0
                                   /\ ReachedMaxPages(pages_processed, sw.max_pages)
                                THEN [Stopped(at, "max_pages") EXCEPT
                                          !.next_page_token = next_token]
                                ELSE [at EXCEPT !.next_page_token = next_token]
    /\ UNCHANGED <<uq_tx_hash, feedVars, serviceVars, connVars, seqVars, runVars, fetchVars>>

\* fetch_data or insert_swaps raises: the exception is logged and re-raised.
HistFails ==
    /\ sw.walker = "historical_sync"
    /\ sw.pc = "fetch"
    /\ sw' = Stopped([sw EXCEPT !.pages_processed = @ + 1], "error")
    /\ UNCHANGED <<uq_tx_hash, feedVars, serviceVars, swaps, sync_status, mon, connVars, seqVars, runVars,
                   fetchVars>>

\* deep_historical_fetch up to its loop: the THORChain rows are deleted.
StartDeep ==
    /\ sw.pc = "idle"
    /\ swaps' = DeleteSource(swaps, "thorchain")
    /\ sw' = [IdleWalk EXCEPT !.pc = "fetch", !.walker = "deep_historical_fetch",
                              !.source = "thorchain", !.max_pages = DeepMaxPages]
    /\ mon' = NoWalkSeen
    /\ UNCHANGED <<uq_tx_hash, feedVars, serviceVars, sync_status, connVars, seqVars, runVars, fetchVars>>

\* One pass of the loop of deep_historical_fetch, which runs while
\* pages_processed < max_pages.
DeepPage(data, price) ==
    /\ sw.walker = "deep_historical_fetch"
    /\ sw.pc = "fetch"
    /\ sw.pages_processed < sw.max_pages
    /\ mon.fetches < MaxFetches
    /\ LET swap_records == SwapRecords("thorchain", data.events, now, price)
           res == InsertSwaps(swaps, swap_records)
           next_token == TopNextToken(data)
           pages_processed == sw.pages_processed + 1
           count == EmptyPages(sw.consecutive_empty_pages, data.events)
           first_date == ConvertTimestampToDate(data.events[1].date)
           last_date == ConvertTimestampToDate(data.events[Len(data.events)].date)
           seen == SeenFetch(mon, sw.next_page_token, "thorchain", data,
                             swap_records # <<>>)
           at == [sw EXCEPT !.pages_processed = pages_processed,
                            !.consecutive_empty_pages = count]
           onward == IF next_token = NoToken THEN Stopped(at, "no_next")
                     ELSE IF ~(pages_processed < sw.max_pages)
                     THEN [Stopped(at, "max_pages") EXCEPT !.next_page_token = next_token]
                     ELSE [at EXCEPT !.next_page_token = next_token]
       IN IF data.events = <<>>
          THEN /\ sw' = IF count >= EmptyPageLimit THEN Stopped(at, "empty_pages")
                        ELSE onward
               /\ mon' = seen
               /\ UNCHANGED swaps
          ELSE IF swap_records # <<>> /\ res.raised
          THEN /\ sw' = Stopped(at, "error")
               /\ mon' = SeenInsertFailed(seen)
               /\ UNCHANGED swaps
          ELSE /\ swaps' = IF swap_records = <<>> THEN swaps ELSE res.swaps
               /\ mon' = IF swap_records = <<>> THEN SeenNoRecords(seen)
                         ELSE SeenKept(SeenSubmit(seen, swaps, res.swaps),
                                       swap_records, res.swaps)
               /\ sw' = IF /\ first_date # -1 /\ last_date # -1
                           /\ last_date <= TargetEarliestDate
                        THEN Stopped(at, "target_date")
                        ELSE onward
    /\ UNCHANGED <<uq_tx_hash, feedVars, serviceVars, sync_status, connVars, seqVars, runVars, fetchVars>>

\* make_direct_api_call or insert_swaps raises: logged and re-raised.
DeepFails ==
    /\ sw.walker = "deep_historical_fetch"
    /\ sw.pc = "fetch"
    /\ sw.pages_processed < sw.max_pages
    /\ sw' = Stopped([sw EXCEPT !.pages_processed = @ + 1], "error")
    /\ UNCHANGED <<uq_tx_hash, feedVars, serviceVars, swaps, sync_status, mon, connVars, seqVars, runVars,
                   fetchVars>>

NextWalk ==
    \/ \E source \in SyncSources, read_ok \in BOOLEAN : StartSyncSource(source, read_ok)
    \/ \E source \in SyncSources :
          \E data \in Responses(source), price \in FeedPrices :
              SyncPage(source, data, price)
    \/ SyncFetchFails
    \/ \E source \in SyncSources :
          \E data \in Responses(source), price \in FeedPrices :
              SyncPersistFails(source, data, price)
    \/ SyncUpdate
    \/ \E max_pages \in HistMaxPages : StartHistorical(max_pages)
    \/ \E data \in Responses("thorchain"), price \in FeedPrices : HistPage(data, price)
    \/ HistFails
    \/ StartDeep
    \/ \E data \in Responses("thorchain"), price \in FeedPrices : DeepPage(data, price)
    \/ DeepFails

SpecWalk == Init /\ [][NextWalk]_vars

(***************************************************************************)
(* Sync cycles: sync_source called again and again by the scheduler        *)
(***************************************************************************)
\* The sources whose cycles are followed: an AMM source and arkham.
CycleSources == {"thorchain"}

\* What the provider hands to the cycles: pages of at most one of two
\* THORChain actions, with a top-level cursor or none.
CycleEvents ==
    { [txID |-> "f1", date |-> NsDate(1, 5), affiliate |-> "vi"],
      [txID |-> "f2", date |-> NsDate(2, 0), affiliate |-> "va"] }

CycleResponses ==
    { [events |-> p, nextPageToken |-> c, meta |-> NoToken,
       next |-> NoToken, hasNext |-> FALSE] :
          p \in {<<>>} \cup { <<e>> : e \in CycleEvents }, c \in {NoToken, "c1"} }

\* A tick of the scheduler calls sync_source for the source: the status row
\* is read (or the read fails and an empty one is used) and the locals are
\* set as on every call.
ScheduledSync(source, read_ok) ==
    /\ sw.pc \in {"idle", "done"}
    /\ sw.cycle < MaxCycles
    /\ sw' = [IdleWalk EXCEPT !.pc = "fetch", !.walker = "sync_source",
                              !.source = source, !.max_pages = SyncMaxPages,
                              !.error_count_read =
                                  IF read_ok THEN sync_status[source].error_count ELSE 0,
                              !.cycle = sw.cycle + 1]
    /\ mon' = NoWalkSeen
    /\ UNCHANGED <<uq_tx_hash, feedVars, serviceVars, swaps, sync_status, connVars, seqVars,
                   runVars, fetchVars>>

\* The sync_status row of arkham after its branch of sync_source: ingest
\* returned (error_count = 0, last_error = None) or raised (error_count = 1,
\* last_error = str(e)); next_page_token = None either way.
ArkhamStatus(row, raised) ==
    [row EXCEPT !.next_page_token = NoToken,
                !.error_count = IF raised THEN 1 ELSE 0,
                !.last_error = raised]

\* sync_source('arkham').  ArkhamIngestor.ingest catches every exception of
\* its fetch and its inserts, logs it and returns; an exception leaves it
\* only from the close() of its finally block.
ArkhamSync(ingest_failed, close_raised) ==
    /\ sw.pc \in {"idle", "done"}
    /\ sw.cycle < MaxCycles
    /\ sync_status' = [sync_status EXCEPT
                          !["arkham"] = ArkhamStatus(@, close_raised)]
    /\ sw' = [IdleWalk EXCEPT !.pc = "done", !.walker = "sync_source",
                              !.source = "arkham",
                              !.stop = IF ingest_failed \/ close_raised
                                       THEN "error" ELSE "no_next",
                              !.cycle = sw.cycle + 1]
    /\ mon' = NoWalkSeen
    /\ UNCHANGED <<uq_tx_hash, feedVars, serviceVars, swaps, connVars, seqVars, runVars,
                   fetchVars>>

NextCycle ==
    \/ \E source \in CycleSources, read_ok \in BOOLEAN : ScheduledSync(source, read_ok)
    \/ \E source \in CycleSources :
          \E data \in CycleResponses, price \in FeedPrices :
              SyncPage(source, data, price)
    \/ SyncFetchFails
    \/ \E source \in CycleSources :
          \E data \in CycleResponses, price \in FeedPrices :
              SyncPersistFails(source, data, price)
    \/ SyncUpdate
    \/ \E ingest_failed, close_raised \in BOOLEAN : ArkhamSync(ingest_failed, close_raised)

SpecCycle == Init /\ [][NextCycle]_vars

(***************************************************************************)
(* Sync cycles against a provider whose list has stopped changing          *)
(***************************************************************************)
\* The list of the provider, newest first, one THORChain action with a
\* Vultisig affiliate per page; page k + 1 is served under the k-th cursor.
StablePages ==
    << <<[txID |-> "f4", date |-> NsDate(2, 8), affiliate |-> "vi"]>>,
       <<[txID |-> "f3", date |-> NsDate(2, 3), affiliate |-> "v0"]>>,
       <<[txID |-> "f2", date |-> NsDate(2, 0), affiliate |-> "va"]>>,
       <<[txID |-> "f1", date |-> NsDate(1, 5), affiliate |-> "vi"]>> >>

StableCursors == <<"p2", "p3", "p4">>

\* The body fetch_data gets for a cursor: the first page for None, the
\* page after the one that carried the cursor otherwise, each with the
\* cursor of the next page or, for the last one, without a cursor.
StableResponse(next_page_token) ==
    LET k == IF next_page_token = NoToken THEN 1
             ELSE 1 + CHOOSE i \in 1..Len(StableCursors) :
                           StableCursors[i] = next_page_token
    IN [events |-> StablePages[k],
        nextPageToken |-> IF k <= Len(StableCursors) THEN StableCursors[k] ELSE NoToken,
        meta |-> NoToken, next |-> NoToken, hasNext |-> FALSE]

\* A tick of the scheduler, cycle after cycle without end: sync_source for
\* the source, with the locals set as on every call.  The cycles are
\* counted up to MaxCycles, the later ones going by the same count.
RepeatedSync(source, read_ok) ==
    /\ sw.pc \in {"idle", "done"}
    /\ sw' = [IdleWalk EXCEPT !.pc = "fetch", !.walker = "sync_source",
                              !.source = source, !.max_pages = SyncMaxPages,
                              !.error_count_read =
                                  IF read_ok THEN sync_status[source].error_count ELSE 0,
                              !.cycle = Min(sw.cycle + 1, MaxCycles)]
    /\ mon' = NoWalkSeen
    /\ UNCHANGED <<uq_tx_hash, feedVars, serviceVars, swaps, sync_status, connVars, seqVars,
                   runVars, fetchVars>>

\* A pass of the loop of sync_source on the page the provider serves for
\* the cursor sent.
StableSyncPage ==
    SyncPage("thorchain", StableResponse(sw.next_page_token), 10)

\* fetch_data raises in one of the earlier cycles; from cycle MaxCycles on
\* every cycle is free of failures.
EarlyFetchFails ==
    /\ sw.cycle < MaxCycles
    /\ SyncFetchFails

NextStable ==
    \/ \E read_ok \in BOOLEAN : RepeatedSync("thorchain", read_ok)
    \/ StableSyncPage
    \/ EarlyFetchFails
    \/ SyncUpdate

\* The scheduler calls sync_all_sources every SYNC_INTERVAL_MINUTES and a
\* running pass of sync_source goes on to its next statement.
SpecStable == Init /\ [][NextStable]_vars /\ WF_vars(NextStable)

(***************************************************************************)
(* full_historical_sync.py: main, the incremental and the append walk      *)
(***************************************************************************)
\* What Midgard hands to full_historical_sync: pages of up to two of four
\* THORChain actions, the last one without a Vultisig affiliate, with a
\* top-level cursor or none.
FullEvents ==
    { [txID |-> "g1", date |-> NsDate(1, 0), affiliate |-> "vi"],
      [txID |-> "g2", date |-> NsDate(1, 5), affiliate |-> "va"],
      [txID |-> "g3", date |-> NsDate(2, 3), affiliate |-> "v0"],
      [txID |-> "g4", date |-> NsDate(2, 0), affiliate |-> "t"] }

FullResponses ==
    { [events |-> p, nextPageToken |-> c, meta |-> NoToken,
       next |-> NoToken, hasNext |-> FALSE] :
          p \in {<<>>} \cup { <<e>> : e \in FullEvents }
                       \cup { <<e, f>> : e, f \in FullEvents },
          c \in {NoToken, "c1"} }

\* --nextPageToken and --max-pages of the command line: None (NoToken, 0)
\* or a value.
FullTokenArgs == {NoToken, "c1"}
FullMaxPagesArgs == {0, 2}

\* get_last_saved_date: MAX(timestamp) of the THORChain rows, in whole
\* seconds (the nanosecond string is int(latest_dt.timestamp()) followed by
\* nine zeros); None (0) without rows or when the query fails.
GetLastSavedDate(rows, read_ok) ==
    LET mine == { r.timestamp : r \in { x \in rows : x.source = "thorchain" } }
    IN IF ~read_ok \/ mine = {} THEN 0
       ELSE CHOOSE t \in mine : \A u \in mine : u <= t

\* last_saved_date and action.get("date", "") <= last_saved_date, a
\* comparison of decimal strings: the empty string is below every string,
\* and strings of the same length compare as their numbers do.
ReachedLastSaved(date, last_saved_date) ==
    /\ last_saved_date # 0
    /\ \/ date.digits = 0
       \/ date.secs < last_saved_date
       \/ date.secs = last_saved_date /\ date.nanos = 0

\* The index of the first action of the page on which the stop test
\* fires, Len(actions) + 1 when it fires on none.
FirstSaved(actions, last_saved_date) ==
    LET hits == { i \in 1..Len(actions) :
                      ReachedLastSaved(actions[i].date, last_saved_date) }
    IN IF hits = {} THEN Len(actions) + 1
       ELSE CHOOSE i \in hits : \A j \in hits : i <= j

\* Mutant of FullSwapRecords: the records parsed before the action on which
\* the stop test fires are dropped with the page.
FullSwapRecordsDroppedAtStop(actions, last_saved_date, clock, price) ==
    LET at == FirstSaved(actions, last_saved_date)
    IN [stop_scraping |-> at <= Len(actions),
        swap_records |-> IF at <= Len(actions) THEN <<>>
                         ELSE SwapRecords("thorchain", actions, clock, price)]

\* The for loop of main over the actions of a page: it breaks, with
\* stop_scraping set, at the first action on which the stop test fires;
\* every action before that one is parsed and its record, if any, kept.
FullSwapRecords(actions, last_saved_date, clock, price) ==
    LET at == FirstSaved(actions, last_saved_date)
    IN [stop_scraping |-> at <= Len(actions),
        swap_records |-> SwapRecords("thorchain", SubSeq(actions, 1, at - 1),
                                     clock, price)]

\* extract_pagination_tokens, its next_token:
\*   data.get("nextPageToken") or data.get("meta", {}).get("nextPageToken")
ExtractPaginationTokens(data) ==
    IF data.nextPageToken # NoToken THEN data.nextPageToken ELSE data.meta

\* main up to its loop.  append_mode is whether --nextPageToken was given;
\* --clear-db deletes the THORChain rows; last_saved_date is read unless
\* append_mode.
StartFull(token, max_pages, clear_db, read_ok) ==
    /\ sw.pc \in {"idle", "done"}
    /\ sw.cycle < MaxCycles
    /\ LET rows == IF clear_db THEN DeleteSource(swaps, "thorchain") ELSE swaps
           append_mode == token # NoToken
       IN /\ swaps' = rows
          /\ sw' = [IdleWalk EXCEPT
                       !.pc = "fetch", !.walker = "full_historical_sync",
                       !.source = "thorchain", !.max_pages = max_pages,
                       !.next_page_token = token,
                       !.last_saved_date =
                           IF append_mode THEN 0 ELSE GetLastSavedDate(rows, read_ok),
                       !.cycle = sw.cycle + 1]
    /\ mon' = NoWalkSeen
    /\ UNCHANGED <<uq_tx_hash, feedVars, serviceVars, sync_status, connVars, seqVars, runVars,
                   fetchVars>>

\* One pass of the while True loop of main, from the fetch to the test of
\* max_pages at the top of the next pass (page_num is pages_processed + 1).
\* A page without actions ends the walk; the records of the page are
\* inserted, an exception of insert_swaps being logged and followed by
\* break; stop_scraping or a missing cursor ends the walk.  The page on
\* which the stop test fired stays in `actions`.
FullPage(data, price) ==
    /\ sw.walker = "full_historical_sync"
    /\ sw.pc = "fetch"
    /\ mon.fetches < MaxFetches
    /\ LET loop == FullSwapRecords(data.events, sw.last_saved_date, now, price)
           swap_records == loop.swap_records
           res == InsertSwaps(swaps, swap_records)
           next_token == ExtractPaginationTokens(data)
           seen == SeenFetch(mon, sw.next_page_token, "thorchain", data,
                             swap_records # <<>>)
           at == [sw EXCEPT !.pages_processed = @ + 1]
       IN IF data.events = <<>>
          THEN /\ sw' = Stopped(sw, "empty_page")
               /\ mon' = seen
               /\ UNCHANGED swaps
          ELSE IF swap_records # <<>> /\ res.raised
          THEN /\ sw' = Stopped(sw, "error")
               /\ mon' = SeenInsertFailed(seen)
               /\ UNCHANGED swaps
          ELSE /\ swaps' = IF swap_records = <<>> THEN swaps ELSE res.swaps
               /\ mon' = IF swap_records = <<>> THEN SeenNoRecords(seen)
                         ELSE SeenKept(SeenSubmit(seen, swaps, res.swaps),
                                       swap_records, res.swaps)
               /\ sw' = IF loop.stop_scraping
                        THEN [Stopped(sw, "last_saved_date") EXCEPT !.data = data]
                        ELSE IF next_token = NoToken THEN Stopped(sw, "no_next")
                        ELSE IF /\ sw.max_pages # 0
                                /\ ReachedMaxPages(at.pages_processed, sw.max_pages)
                        THEN [Stopped(at, "max_pages") EXCEPT
                                  !.next_page_token = next_token]
                        ELSE [at EXCEPT !.next_page_token = next_token]
    /\ UNCHANGED <<uq_tx_hash, feedVars, serviceVars, sync_status, connVars, seqVars, runVars,
                   fetchVars>>

\* fetch_actions raises: the exception is logged and re-raised.
FullFails ==
    /\ sw.walker = "full_historical_sync"
    /\ sw.pc = "fetch"
    /\ sw' = Stopped(sw, "error")
    /\ UNCHANGED <<uq_tx_hash, feedVars, serviceVars, swaps, sync_status, mon, connVars, seqVars,
                   runVars, fetchVars>>

NextFull ==
    \/ \E token \in FullTokenArgs, max_pages \in FullMaxPagesArgs :
          \E clear_db, read_ok \in BOOLEAN : StartFull(token, max_pages, clear_db, read_ok)
    \/ \E data \in FullResponses, price \in FeedPrices : FullPage(data, price)
    \/ FullFails

SpecFull == Init /\ [][NextFull]_vars

(***************************************************************************)
(* ArkhamIngestor: fetch_all_transfers and ingest, run after run           *)
(***************************************************************************)
\* limit of fetch_all_transfers, the transfers per page (1000 in the code,
\* scaled down with the feed).
ArkhamLimit == 2

\* The type of dex_aggregator_revenue.timestamp, which the schema (not part
\* of the sources) decides: psycopg2 returns an aware datetime for
\* TIMESTAMP WITH TIME ZONE and a naive one for TIMESTAMP.
TimestampTypes == {"timestamptz", "timestamp"}

\* GET /transfers answers newest first.  A transfer is written as the
\* number of its blockTimestamp, which is also its place in the order of
\* listing; its transactionHash is its own.
ArkhamListing(listed) ==
    [i \in 1..listed |-> listed + 1 - i]

\* The 'transfers' of the response for params limit and offset.
ArkhamPage(listing, offset) ==
    SubSeq(listing, offset + 1, Min(offset + ArkhamLimit, Len(listing)))

\* SELECT MAX(timestamp) FROM dex_aggregator_revenue: None (0) without
\* rows or when the query raises.
LatestTimestamp(rows, read_ok) ==
    IF ~read_ok \/ rows = {} THEN 0
    ELSE CHOOSE t \in rows : \A u \in rows : u <= t

\* transfer_time <= latest_timestamp inside try/except: pass.  The aware
\* transfer_time compares with an aware latest_timestamp; against a naive
\* one the comparison raises TypeError, which the bare except swallows.
ReachedExisting(transfer, latest_timestamp, schema) ==
    /\ latest_timestamp # 0
    /\ schema = "timestamptz"
    /\ transfer <= latest_timestamp

\* The while True loop of fetch_all_transfers from `offset` on, page
\* page_no, with all_transfers collected so far.  A RequestException
\* (for page fail_at) breaks; an empty page breaks; a transfer not later
\* than latest_timestamp returns all_transfers as it stands, without the
\* new_transfers of the page at hand; a page shorter than limit is the last.
RECURSIVE FetchAllTransfers(_, _, _, _, _, _, _)
FetchAllTransfers(listing, latest_timestamp, schema, fail_at, offset, page_no, all_transfers) ==
    LET transfers == ArkhamPage(listing, offset)
        reached == \E i \in 1..Len(transfers) :
                       ReachedExisting(transfers[i], latest_timestamp, schema)
    IN IF page_no = fail_at THEN all_transfers
       ELSE IF transfers = <<>> THEN all_transfers
       ELSE IF reached THEN all_transfers
       ELSE IF Len(transfers) < ArkhamLimit THEN all_transfers \o transfers
       ELSE FetchAllTransfers(listing, latest_timestamp, schema, fail_at,
                              offset + Len(transfers), page_no + 1,
                              all_transfers \o transfers)

\* The provider lists one more transfer, newer than every one before it.
ArkhamLists ==
    /\ arkham.listed < MaxTransfers
    /\ arkham' = [arkham EXCEPT !.listed = @ + 1]
    /\ UNCHANGED <<uq_tx_hash, swaps, serviceVars, connVars, seqVars, runVars,
                   fetchVars, walkVars>>

\* ArkhamIngestor.ingest: fetch_all_transfers, then insert_transfer (an
\* upsert on tx_hash) for every transfer it returned and the commit.  The
\* read of the latest timestamp may fail (read_ok) and a request may fail
\* (for page fail_at, 0 for none); such runs are counted, and there are
\* fewer than MaxCycles of them.
ArkhamIngest(schema, read_ok, fail_at) ==
    /\ arkham.schema \in {"unknown", schema}
    /\ (read_ok /\ fail_at = 0) \/ arkham.failures + 1 < MaxCycles
    /\ LET listing == ArkhamListing(arkham.listed)
           latest_timestamp == LatestTimestamp(arkham.rows, read_ok)
           transfers == FetchAllTransfers(listing, latest_timestamp, schema, fail_at,
                                          0, 1, <<>>)
       IN arkham' = [arkham EXCEPT
                        !.schema = schema,
                        !.failures = IF read_ok /\ fail_at = 0 THEN @ ELSE @ + 1,
                        !.fetched = transfers,
                        !.rows = @ \cup { transfers[i] : i \in 1..Len(transfers) }]
    /\ UNCHANGED <<uq_tx_hash, swaps, serviceVars, connVars, seqVars, runVars,
                   fetchVars, walkVars>>

NextArkham ==
    \/ ArkhamLists
    \/ \E schema \in TimestampTypes, read_ok \in BOOLEAN, fail_at \in 0..2 :
          ArkhamIngest(schema, read_ok, fail_at)

\* sync_source('arkham') is called on every tick of the scheduler.
SpecArkham == Init /\ [][NextArkham]_vars /\ WF_vars(NextArkham)

(***************************************************************************)
(* parse_swap on one raw event: affiliates, price sanity and fees          *)
(***************************************************************************)
\* vultisig_codes of _extract_vultisig_affiliate
VultisigCodes == <<"vi", "va", "v0">>

\* str.lower() on the affiliate codes of the raw events.
Lower(s) ==
    IF s = "VI" THEN "vi"
    ELSE IF s = " VI" THEN " vi"
    ELSE IF s = "EXTREF" THEN "extref"
    ELSE s

\* [int(x) for x in items if x.isdigit()] over the pieces of a '/'-split.
\* str.isdigit() holds for decimal strings and also for digit characters
\* outside 0-9 (the superscript two U+00B2, written "sup2" here), for which
\* int() raises ValueError.
IntList(items) ==
    LET isdigit(x) == x \in {"10", "35", "sup2"}
        int(x) == IF x = "10" THEN 10 ELSE 35
        kept == SelectSeq(items, isdigit)
    IN [raised |-> \E i \in 1..Len(kept) : kept[i] = "sup2",
        values |-> [i \in 1..Len(kept) |-> int(kept[i])]]

\* Mutant of ExtractVultisigAffiliate: the bps is the first one of the memo,
\* whatever the place of the Vultisig code.
ExtractVultisigAffiliateFirstBps(affiliate_address, memo) ==
    LET strip(s) == IF s = " vi" THEN "vi" ELSE s
        codes == { VultisigCodes[k] : k \in 1..Len(VultisigCodes) }
        hits == { i \in 1..Len(affiliate_address) :
                      strip(Lower(affiliate_address[i])) \in codes }
        vultisig_index == CHOOSE i \in hits : \A j \in hits : i <= j
        bps_part == memo.last
        parsed == IF memo.parts >= 6 THEN IntList(bps_part)
                  ELSE [raised |-> FALSE, values |-> <<>>]
        bps_values == parsed.values
    IN IF affiliate_address = <<>> \/ hits = {} THEN [kind |-> "none"]
       ELSE IF parsed.raised THEN [kind |-> "raised"]
       ELSE [kind |-> "info",
             code |-> strip(Lower(affiliate_address[vultisig_index])),
             bps |-> IF bps_values # <<>> THEN bps_values[1] ELSE 0,
             address |-> affiliate_address[vultisig_index]]

\* _extract_vultisig_affiliate of both AMM ingestors.  affiliate_address is
\* given by its '/'-separated pieces (none for the empty string); memo by
\* the number of its ':'-separated parts and the '/'-separated pieces of the
\* last part.  None without a Vultisig code; otherwise the code, the bps at
\* the index of the code in the list read from the memo, or the first bps
\* when the list is too short, or 0 when it is empty; int() may raise.  A
\* last part without '/' is read as a list of one piece.
ExtractVultisigAffiliate(affiliate_address, memo) ==
    LET strip(s) == IF s = " vi" THEN "vi" ELSE s
        codes == { VultisigCodes[k] : k \in 1..Len(VultisigCodes) }
        hits == { i \in 1..Len(affiliate_address) :
                      strip(Lower(affiliate_address[i])) \in codes }
        vultisig_index == CHOOSE i \in hits : \A j \in hits : i <= j
        bps_part == memo.last
        parsed == IF memo.parts >= 6 THEN IntList(bps_part)
                  ELSE [raised |-> FALSE, values |-> <<>>]
        bps_values == parsed.values
    IN IF affiliate_address = <<>> \/ hits = {} THEN [kind |-> "none"]
       ELSE IF parsed.raised THEN [kind |-> "raised"]
       ELSE [kind |-> "info",
             code |-> strip(Lower(affiliate_address[vultisig_index])),
             bps |-> IF bps_values # <<>> /\ vultisig_index <= Len(bps_values)
                     THEN bps_values[vultisig_index]
                     ELSE IF bps_values # <<>> THEN bps_values[1] ELSE 0,
             address |-> affiliate_address[vultisig_index]]

\* Mutant of StoredAffiliates: THORChain stores the Vultisig entries of the
\* affiliate string also when the filter finds none.
StoredAffiliatesNoFallback(provider, affiliate_addresses, affiliate_fees_bps, info) ==
    LET codes == { VultisigCodes[k] : k \in 1..Len(VultisigCodes) }
        vultisig_affiliates == SelectSeq(affiliate_addresses, LAMBDA a : Lower(a) \in codes)
        n == Min(Len(vultisig_affiliates), Len(affiliate_fees_bps))
    IN IF provider = "thorchain"
       THEN [addresses |-> vultisig_affiliates,
             bps |-> IF vultisig_affiliates # <<>> /\ affiliate_fees_bps # <<>>
                     THEN SubSeq(affiliate_fees_bps, 1, n) ELSE <<info.bps>>]
       ELSE [addresses |-> IF affiliate_addresses # <<>> THEN affiliate_addresses
                           ELSE <<info.code>>,
             bps |-> IF affiliate_fees_bps # <<>> THEN affiliate_fees_bps
                     ELSE <<info.bps>>]

\* affiliate_addresses_to_store and affiliate_fees_bps_to_store.  THORChain
\* keeps the pieces of the affiliate string that are Vultisig codes (lower()
\* without strip()) and as many of the affiliateFee numbers from the front,
\* or the resolved code and bps; MayaChain keeps every piece and every
\* number, or the resolved code and bps.
StoredAffiliates(provider, affiliate_addresses, affiliate_fees_bps, info) ==
    LET codes == { VultisigCodes[k] : k \in 1..Len(VultisigCodes) }
        vultisig_affiliates == SelectSeq(affiliate_addresses, LAMBDA a : Lower(a) \in codes)
        n == Min(Len(vultisig_affiliates), Len(affiliate_fees_bps))
    IN IF provider = "thorchain"
       THEN [addresses |-> IF vultisig_affiliates # <<>> THEN vultisig_affiliates
                           ELSE <<info.code>>,
             bps |-> IF vultisig_affiliates # <<>> /\ affiliate_fees_bps # <<>>
                     THEN SubSeq(affiliate_fees_bps, 1, n) ELSE <<info.bps>>]
       ELSE [addresses |-> IF affiliate_addresses # <<>> THEN affiliate_addresses
                           ELSE <<info.code>>,
             bps |-> IF affiliate_fees_bps # <<>> THEN affiliate_fees_bps
                     ELSE <<info.bps>>]

\* Mutant of Reconcile: the slippage is not looked at.
ReconcileAtAnySlip(in_amount_usd, out_amount_usd, swap_slip_bps) ==
    LET diff == IF in_amount_usd > out_amount_usd THEN in_amount_usd - out_amount_usd
                ELSE out_amount_usd - in_amount_usd
        larger == IF in_amount_usd > out_amount_usd THEN in_amount_usd ELSE out_amount_usd
        lower == Min(in_amount_usd, out_amount_usd)
    IN IF in_amount_usd > 0 /\ out_amount_usd > 0 /\ 10 * diff > larger
       THEN [in_amount_usd |-> lower, out_amount_usd |-> lower]
       ELSE [in_amount_usd |-> in_amount_usd, out_amount_usd |-> out_amount_usd]

\* The price sanity check of both AMM parsers: with both values positive
\* and swap_slip_bps < 500, diff_pct = abs(in - out) / max(in, out) > 0.1
\* makes both values the lower one.
Reconcile(in_amount_usd, out_amount_usd, swap_slip_bps) ==
    LET diff == IF in_amount_usd > out_amount_usd THEN in_amount_usd - out_amount_usd
                ELSE out_amount_usd - in_amount_usd
        larger == IF in_amount_usd > out_amount_usd THEN in_amount_usd ELSE out_amount_usd
        lower == Min(in_amount_usd, out_amount_usd)
    IN IF /\ in_amount_usd > 0 /\ out_amount_usd > 0 /\ swap_slip_bps < 500
          /\ 10 * diff > larger
       THEN [in_amount_usd |-> lower, out_amount_usd |-> lower]
       ELSE [in_amount_usd |-> in_amount_usd, out_amount_usd |-> out_amount_usd]

\* Mutant of AffiliateFeeUsd: MayaChain prices the fee output as THORChain
\* does.
AffiliateFeeUsdFromAmount(provider, raw_swap, affiliate_fee_bps, in_amount_usd) ==
    LET fee_asset == raw_swap.fee_out.asset
        fee_amount == raw_swap.fee_out.amount
        derived == IF raw_swap.in_asset = "THOR.RUNE" /\ raw_swap.inPriceUSD > 0
                   THEN raw_swap.inPriceUSD
                   ELSE IF raw_swap.out_asset = "THOR.RUNE" /\ raw_swap.outPriceUSD > 0
                   THEN raw_swap.outPriceUSD
                   ELSE 0
        rune_price_usd == IF raw_swap.runePriceUSD > 0 THEN raw_swap.runePriceUSD
                          ELSE derived
    IN IF fee_asset = "THOR.RUNE" THEN fee_amount * rune_price_usd
       ELSE IF fee_asset = raw_swap.in_asset THEN fee_amount * raw_swap.inPriceUSD
       ELSE IF fee_asset = raw_swap.out_asset THEN fee_amount * raw_swap.outPriceUSD
       ELSE (affiliate_fee_bps * in_amount_usd) \div 10000

\* affiliate_fee_usd.  THORChain prices the amount of the affiliate output:
\* in RUNE at the price of Midgard's history (runePriceUSD, 0 when the
\* lookup fails) or else at the price derived from the swap, in the input
\* or output asset at the price of the swap, and falls back to
\* bps / 10000 * in_amount_usd for any other asset.  MayaChain always takes
\* bps / 10000 * in_amount_usd.  Amounts are in whole coins (amount / 1e8),
\* and the division by 10000 is exact on the prices of the raw events.
AffiliateFeeUsd(provider, raw_swap, affiliate_fee_bps, in_amount_usd) ==
    LET fee_asset == raw_swap.fee_out.asset
        fee_amount == raw_swap.fee_out.amount
        derived == IF raw_swap.in_asset = "THOR.RUNE" /\ raw_swap.inPriceUSD > 0
                   THEN raw_swap.inPriceUSD
                   ELSE IF raw_swap.out_asset = "THOR.RUNE" /\ raw_swap.outPriceUSD > 0
                   THEN raw_swap.outPriceUSD
                   ELSE 0
        rune_price_usd == IF raw_swap.runePriceUSD > 0 THEN raw_swap.runePriceUSD
                          ELSE derived
    IN IF provider = "mayachain" THEN (affiliate_fee_bps * in_amount_usd) \div 10000
       ELSE IF fee_asset = "THOR.RUNE" THEN fee_amount * rune_price_usd
       ELSE IF fee_asset = raw_swap.in_asset THEN fee_amount * raw_swap.inPriceUSD
       ELSE IF fee_asset = raw_swap.out_asset THEN fee_amount * raw_swap.outPriceUSD
       ELSE (affiliate_fee_bps * in_amount_usd) \div 10000

\* parse_swap returning None, and a parse_swap that did not get to
\* _extract_vultisig_affiliate.
NoParsedSwap == [kind |-> "none"]
NotCalled == [kind |-> "not_called"]

\* Mutant of ResolveAmmSwap: a THORChain action whose fee is in RUNE is
\* skipped when neither Midgard's history nor the swap gives a RUNE price.
ResolveAmmSwapSkipsUnpriced(provider, raw_swap) ==
    LET affiliate_addresses == raw_swap.affiliateAddress
        fees == IntList(raw_swap.affiliateFee)
        info == ExtractVultisigAffiliate(raw_swap.affiliateAddress, raw_swap.memo)
        usd == Reconcile(raw_swap.in_amount * raw_swap.inPriceUSD,
                         raw_swap.out_amount * raw_swap.outPriceUSD,
                         raw_swap.swapSlip)
        difference == usd.in_amount_usd - usd.out_amount_usd
        stored == StoredAffiliates(provider, affiliate_addresses, fees.values, info)
        unpriced == /\ provider = "thorchain"
                    /\ raw_swap.fee_out.asset = "THOR.RUNE"
                    /\ raw_swap.runePriceUSD = 0
                    /\ ~(raw_swap.in_asset = "THOR.RUNE" /\ raw_swap.inPriceUSD > 0)
                    /\ ~(raw_swap.out_asset = "THOR.RUNE" /\ raw_swap.outPriceUSD > 0)
    IN IF fees.raised THEN [info |-> NotCalled, swap |-> NoParsedSwap]
       ELSE IF info.kind # "info" THEN [info |-> info, swap |-> NoParsedSwap]
       ELSE IF ~raw_swap.fee_out.present THEN [info |-> info, swap |-> NoParsedSwap]
       ELSE IF unpriced THEN [info |-> info, swap |-> NoParsedSwap]
       ELSE [info |-> info,
             swap |-> [kind |-> "swap",
                       in_amount_usd |-> usd.in_amount_usd,
                       out_amount_usd |-> usd.out_amount_usd,
                       total_fee_usd |-> IF difference > 0 THEN difference ELSE 0,
                       affiliate_fee_usd |->
                           AffiliateFeeUsd(provider, raw_swap, info.bps, usd.in_amount_usd),
                       affiliate_addresses |-> stored.addresses,
                       affiliate_fees_bps |-> stored.bps]]

\* parse_swap of THORChainIngestor and MayaChainIngestor on one action, with
\* the outcome of _extract_vultisig_affiliate next to the record: None when
\* the body raises, when no Vultisig code is found and when no affiliate
\* output with coins is found.
ResolveAmmSwap(provider, raw_swap) ==
    LET affiliate_addresses == raw_swap.affiliateAddress
        fees == IntList(raw_swap.affiliateFee)
        info == ExtractVultisigAffiliate(raw_swap.affiliateAddress, raw_swap.memo)
        usd == Reconcile(raw_swap.in_amount * raw_swap.inPriceUSD,
                         raw_swap.out_amount * raw_swap.outPriceUSD,
                         raw_swap.swapSlip)
        difference == usd.in_amount_usd - usd.out_amount_usd
        stored == StoredAffiliates(provider, affiliate_addresses, fees.values, info)
    IN IF fees.raised THEN [info |-> NotCalled, swap |-> NoParsedSwap]
       ELSE IF info.kind # "info" THEN [info |-> info, swap |-> NoParsedSwap]
       ELSE IF ~raw_swap.fee_out.present THEN [info |-> info, swap |-> NoParsedSwap]
       ELSE [info |-> info,
             swap |-> [kind |-> "swap",
                       in_amount_usd |-> usd.in_amount_usd,
                       out_amount_usd |-> usd.out_amount_usd,
                       total_fee_usd |-> IF difference > 0 THEN difference ELSE 0,
                       affiliate_fee_usd |->
                           AffiliateFeeUsd(provider, raw_swap, info.bps, usd.in_amount_usd),
                       affiliate_addresses |-> stored.addresses,
                       affiliate_fees_bps |-> stored.bps]]

\* parse_swap of LiFiIngestor on one transfer: gas is the network fee, the
\* feeCollection steps priced in the sending token the affiliate fee, what
\* is left of the gap between input and output, floored at zero, the
\* liquidity fee; total_fee_usd is their sum.  The affiliate lists are empty.
\* Step amounts are in whole tokens (amount / 10 ** decimals).
ResolveLifiTransfer(raw_transfer) ==
    LET sending_decimals == raw_transfer.decimals
        token_price == raw_transfer.priceUSD
        counted == token_price > 0 /\ sending_decimals > 0
        StepFee(step) == IF step.tool = "feeCollection" /\ counted
                         THEN (step.fromAmount - step.toAmount) * token_price
                         ELSE 0
        included_steps == raw_transfer.includedSteps
        affiliate_fee_usd ==
            IF included_steps = <<>> THEN 0
            ELSE IF Len(included_steps) = 1 THEN StepFee(included_steps[1])
            ELSE StepFee(included_steps[1]) + StepFee(included_steps[2])
        network_fee_usd == raw_transfer.sendingGasUSD + raw_transfer.receivingGasUSD
        gap == raw_transfer.sendingUSD - raw_transfer.receivingUSD - affiliate_fee_usd
        liquidity_fee_usd == IF gap > 0 THEN gap ELSE 0
    IN [info |-> NotCalled,
        swap |-> [kind |-> "swap",
                  in_amount_usd |-> raw_transfer.sendingUSD,
                  out_amount_usd |-> raw_transfer.receivingUSD,
                  total_fee_usd |-> network_fee_usd + affiliate_fee_usd + liquidity_fee_usd,
                  affiliate_fee_usd |-> affiliate_fee_usd,
                  affiliate_addresses |-> <<>>,
                  affiliate_fees_bps |-> <<>>]]

\* The raw actions handed to the AMM parsers: one swap of 1 BTC.BTC for
\* 1 ETH.ETH with a RUNE affiliate output, varied in its affiliate string,
\* memo and affiliateFee, in its prices and slippage, and in its affiliate
\* output and the RUNE price Midgard has for it.
RawSwaps ==
    LET memo(parts, last_part) == [parts |-> parts, last |-> last_part]
        base == [affiliateAddress |-> <<"vi">>, memo |-> memo(6, <<"35">>),
                 affiliateFee |-> <<"35">>,
                 fee_out |-> [present |-> TRUE, asset |-> "THOR.RUNE", amount |-> 3],
                 in_asset |-> "BTC.BTC", in_amount |-> 1, inPriceUSD |-> 100000,
                 out_asset |-> "ETH.ETH", out_amount |-> 1, outPriceUSD |-> 80000,
                 swapSlip |-> 200, runePriceUSD |-> 2]
        affiliates == { <<>>, <<"vi">>, <<" VI">>, <<"EXTREF", "vi">>,
                        <<"vi", "va">>, <<"t">> }
        memos == { memo(0, <<>>), memo(3, <<"x">>), memo(6, <<"35">>),
                   memo(6, <<"10", "35">>), memo(6, <<"x">>), memo(6, <<"sup2">>),
                   memo(6, <<"10", "sup2">>) }
        fees == { <<>>, <<"35">>, <<"10", "35">> }
    IN { [base EXCEPT !.affiliateAddress = a, !.memo = m, !.affiliateFee = f] :
             a \in affiliates, m \in memos, f \in fees }
       \cup
       { [base EXCEPT !.inPriceUSD = i, !.outPriceUSD = o, !.swapSlip = s] :
             i \in {0, 80000, 100000}, o \in {0, 80000, 89000, 90000, 100000},
             s \in {0, 200, 500, 600} }
       \cup
       { [base EXCEPT !.fee_out = [present |-> p, asset |-> a, amount |-> 3],
                      !.runePriceUSD = r] :
             p \in BOOLEAN, a \in {"THOR.RUNE", "BTC.BTC", "ETH.ETH", "GAIA.ATOM"},
             r \in {0, 2} }

\* The raw transfers handed to the LiFi parser: USD values of both sides,
\* gas on both sides, and up to two included steps.
RawTransfers ==
    LET step(tool, fromAmount, toAmount) ==
            [tool |-> tool, fromAmount |-> fromAmount, toAmount |-> toAmount]
        steps == { <<>>, <<step("feeCollection", 5, 3)>>,
                   <<step("feeCollection", 3, 5)>>,
                   <<step("swap", 5, 3), step("feeCollection", 5, 4)>> }
    IN { [sendingUSD |-> i, receivingUSD |-> o, sendingGasUSD |-> g,
          receivingGasUSD |-> 0, includedSteps |-> st, priceUSD |-> p,
          decimals |-> d] :
             i \in {80, 100}, o \in {80, 100}, g \in {-1, 0, 2}, st \in steps,
             p \in {0, 1}, d \in {0, 18} }

\* parse_swap of an AMM ingestor is called on one action.
ParseAmmEvent(provider, raw_swap) ==
    /\ resolved.n < MaxResolves
    /\ LET r == ResolveAmmSwap(provider, raw_swap)
       IN resolved' = [n |-> resolved.n + 1, provider |-> provider, raw |-> raw_swap,
                       info |-> r.info, swap |-> r.swap]
    /\ UNCHANGED <<uq_tx_hash, feedVars, swaps, ing, parsing, pool, connVars, seqVars, runVars,
                   fetchVars, walkVars>>

\* parse_swap of the LiFi ingestor is called on one transfer.
ParseLifiEvent(raw_transfer) ==
    /\ resolved.n < MaxResolves
    /\ LET r == ResolveLifiTransfer(raw_transfer)
       IN resolved' = [n |-> resolved.n + 1, provider |-> "lifi", raw |-> raw_transfer,
                       info |-> r.info, swap |-> r.swap]
    /\ UNCHANGED <<uq_tx_hash, feedVars, swaps, ing, parsing, pool, connVars, seqVars, runVars,
                   fetchVars, walkVars>>

NextResolve ==
    \/ \E provider \in AmmIngestors, raw_swap \in RawSwaps :
          ParseAmmEvent(provider, raw_swap)
    \/ \E raw_transfer \in RawTransfers : ParseLifiEvent(raw_transfer)

SpecResolve == Init /\ [][NextResolve]_vars

(***************************************************************************)
(* The worker pool: main, sync_all_sources and the futures of a tick       *)
(***************************************************************************)
\* ThreadPoolExecutor(max_workers=4)
MaxWorkers == 4

FutureDone == {"returned", "raised"}

\* Futures a worker thread is executing.
Busy(fut) == { src \in ServiceSources : fut[src] = "running" }

\* main: the initial sync_all_sources() and, from the loop, the job that
\* schedule.run_pending() calls in the main thread.  An exception leaving
\* sync_all_sources leaves main too.
StartTick ==
    /\ pool.main = "idle"
    /\ pool.left # "raised"
    /\ pool.tick < MaxTicks
    /\ pool' = [pool EXCEPT !.main = "submit", !.tick = @ + 1, !.submitted = 0,
                            !.fut = [src \in ServiceSources |-> "none"],
                            !.collected = {}, !.left = ""]
    /\ UNCHANGED <<uq_tx_hash, feedVars, swaps, ing, parsing, resolved, connVars, seqVars, runVars,
                   fetchVars, walkVars>>

\* executor.submit(self.sync_source, src) for the next key of self.ingestors.
Submit ==
    /\ pool.main = "submit"
    /\ pool.submitted < Len(SourceOrder)
    /\ LET src == SourceOrder[pool.submitted + 1]
       IN pool' = [pool EXCEPT !.submitted = @ + 1, !.fut[src] = "pending",
                               !.main = IF pool.submitted + 1 = Len(SourceOrder)
                                        THEN "collect" ELSE "submit"]
    /\ UNCHANGED <<uq_tx_hash, feedVars, swaps, ing, parsing, resolved, connVars, seqVars, runVars,
                   fetchVars, walkVars>>

\* A worker thread of the pool takes a pending future and enters sync_source.
StartRun(src) ==
    /\ pool.fut[src] = "pending"
    /\ Cardinality(Busy(pool.fut)) < MaxWorkers
    /\ pool' = [pool EXCEPT !.fut[src] = "running", !.runs[src] = @ + 1]
    /\ UNCHANGED <<uq_tx_hash, feedVars, swaps, ing, parsing, resolved, connVars, seqVars, runVars,
                   fetchVars, walkVars>>

\* How sync_source is left.  The arkham branch catches what ingest and, in
\* the outer handler, what its own update_sync_status raise.  For the other
\* sources an exception leaves the page loop only from the handler of the
\* loop (update_sync_status raising while the failure is recorded), and one
\* can come from the refresh of the materialized views; the outer handler
\* records it, and if that update_sync_status raises too, so does sync_source.
SyncSourceOutcome(source, page_failed, record_ok, refresh_ok, outer_record_ok) ==
    IF source = "arkham" THEN "returned"
    ELSE IF (page_failed /\ ~record_ok) \/ ~refresh_ok
    THEN (IF outer_record_ok THEN "returned" ELSE "raised")
    ELSE "returned"

\* sync_source returns or raises in its worker thread; the future keeps the
\* result or the exception.
FinishRun(src, page_failed, record_ok, refresh_ok, outer_record_ok) ==
    /\ pool.fut[src] = "running"
    /\ pool' = [pool EXCEPT
                    !.fut[src] = SyncSourceOutcome(src, page_failed, record_ok,
                                                   refresh_ok, outer_record_ok),
                    !.runs[src] = @ - 1]
    /\ UNCHANGED <<uq_tx_hash, feedVars, swaps, ing, parsing, resolved, connVars, seqVars, runVars,
                   fetchVars, walkVars>>

\* Mutant of FutureResult: future.result() outside a try block.
FutureResultPropagates(outcome) ==
    IF outcome = "raised" THEN "propagated" ELSE "completed"

\* try: future.result() ... except Exception as e: logger.error(...)
FutureResult(outcome) ==
    IF outcome = "raised" THEN "failed" ELSE "completed"

\* One pass of the loop over as_completed(futures): a finished future is
\* handed over and its result taken.  An exception that leaves the body of
\* the loop leaves the loop.
Collect(src) ==
    /\ pool.main = "collect"
    /\ pool.fut[src] \in FutureDone
    /\ src \notin pool.collected
    /\ pool' = [pool EXCEPT !.collected = @ \cup {src},
                            !.main = IF FutureResult(pool.fut[src]) = "propagated"
                                     THEN "unwind" ELSE "collect"]
    /\ UNCHANGED <<uq_tx_hash, feedVars, swaps, ing, parsing, resolved, connVars, seqVars, runVars,
                   fetchVars, walkVars>>

\* Mutant of SyncAllReturns: the futures are submitted and not waited for.
SyncAllReturnsAtOnce(fut, collected) ==
    TRUE

\* The loop over as_completed ends when every future has been handed over,
\* and the with block is left when every future is done.
SyncAllReturns(fut, collected) ==
    /\ collected = ServiceSources
    /\ \A src \in ServiceSources : fut[src] \in FutureDone

\* sync_all_sources is left, back to main: by its return, or by an
\* exception that left the loop, once the with block has shut the executor
\* down, which waits for every future.
LeaveSyncAll ==
    /\ \/ pool.main = "collect" /\ SyncAllReturns(pool.fut, pool.collected)
       \/ pool.main = "unwind" /\ \A src \in ServiceSources : pool.fut[src] \in FutureDone
    /\ pool' = [pool EXCEPT !.main = "idle",
                            !.left = IF pool.main = "unwind" THEN "raised"
                                     ELSE "returned"]
    /\ UNCHANGED <<uq_tx_hash, feedVars, swaps, ing, parsing, resolved, connVars, seqVars, runVars,
                   fetchVars, walkVars>>

NextPool ==
    \/ StartTick
    \/ Submit
    \/ \E src \in ServiceSources : StartRun(src)
    \/ \E src \in ServiceSources :
          \E page_failed, record_ok, refresh_ok, outer_record_ok \in BOOLEAN :
              FinishRun(src, page_failed, record_ok, refresh_ok, outer_record_ok)
    \/ \E src \in ServiceSources : Collect(src)
    \/ LeaveSyncAll

SpecPool == Init /\ [][NextPool]_vars

(***************************************************************************)
(* Properties of the swaps table under concurrent writers                  *)
(***************************************************************************)

\* C1: in every reachable state of the swaps table, under any interleaving of
\* insert_swaps transactions (and of the reprocess job), at most one row
\* exists per natural key (timestamp, tx_hash, source), also when one batch
\* carries the same key more than once.
NaturalKeyUnique ==
    \A r, s \in swaps : NaturalKey(r) = NaturalKey(s) => r = s

\* Two transactions are open at once and one of them has had a statement
\* skipped by the conflict clause while rows are committed.
WitnessOverlappingDuplicate ==
    \E w, v \in Workers :
        /\ w # v
        /\ conn[w].pc = "open" /\ conn[v].pc = "open"
        /\ conn[w].n > Cardinality(conn[w].pending)
        /\ swaps # {}

RepeatedBatchInsertsNothing ==
    (last.n >= 1 /\ ~last.raised) =>
        /\ last.rowcount = Cardinality(swaps) - Cardinality(last.before)
        /\ last.repeat => (last.rowcount = 0 /\ swaps = last.before)

\* The same non-empty batch was submitted twice in a row and its first
\* submission inserted rows.
WitnessRepeatedBatch ==
    /\ last.repeat /\ ~last.raised
    /\ Len(last.batch) = MaxBatchLen
    /\ BatchRows(last.batch) \subseteq swaps

ReingestedPageAddsNothing ==
    (run.repeat /\ ~run.raised) => swaps = run.before

\* C4: the store holds at most one row for any pair of source and tx_hash,
\* however often and whenever the transaction is ingested.
OneRowPerSourceAndTxHash ==
    \A r, s \in swaps :
        (r.source = s.source /\ r.tx_hash = s.tx_hash) => r = s

(***************************************************************************)
(* Properties of the page fetches                                          *)
(***************************************************************************)

\* C8: every page fetch ends (returns a body or raises) after a bounded
\* number of HTTP attempts, whatever the responses: no fetch function makes
\* more attempts than its retry ceiling allows (the ceiling read as retries
\* after a first attempt, so one attempt more than the ceiling).
FetchAttemptsBounded ==
    req.attempts <= MAX_RETRIES + 1

(***************************************************************************)
(* Properties of the pagination walks                                      *)
(***************************************************************************)

CaughtUpAfterThreeZeroInsertPages ==
    sw.walker = "sync_source" =>
        /\ sw.consecutive_zero_inserts = mon.zero_run
        /\ sw.stop = "caught_up" => mon.zero_run >= ZeroInsertLimit
        /\ mon.zero_run >= ZeroInsertLimit => (sw.pc = "done" /\ sw.stop = "caught_up")

\* A run has stopped as caught up after a zero-insert page, a page that
\* inserted a row, and three more zero-insert pages.
WitnessCaughtUpAfterReset ==
    /\ sw.walker = "sync_source" /\ sw.stop = "caught_up"
    /\ mon.fetches >= 5 /\ Cardinality(swaps) >= 2

ServerErrorBacksOffToCeiling ==
    (req.fn = "make_request" /\ req.last = "5xx") =>
        IF req.retries < MAX_RETRIES
        THEN /\ req.pc = "running"
             /\ req.slept \in {SleepBaseDelay(2 ^ req.retries),
                                SleepBaseDelay(2 ^ (req.retries - 1))}
        ELSE req.pc = "raised"

\* C19 amended: in make_request a 502/503/504 response adds one to the retry
\* count the call shares with its 429 and timeout retries; when the count is
\* then 2 or more the call raises at once without sleeping, otherwise it
\* sleeps base_delay * 2 and requests again.
ServerErrorRetriedOnce ==
    [][(/\ req'.fn = "make_request"
        /\ req'.n = req.n
        /\ req'.attempts = req.attempts + 1
        /\ req'.last = "5xx") =>
           /\ req'.retries = req.retries + 1
           /\ IF req'.retries >= 2
              THEN req'.pc = "raised" /\ req'.slept = NoSleep
              ELSE req'.pc = "running" /\ req'.slept = SleepBaseDelay(2)]_vars

\* A first server error has been slept on and the request is about to be
\* made again.
WitnessServerErrorRetried ==
    /\ req.fn = "make_request"
    /\ req.last = "5xx"
    /\ req.pc = "running"
    /\ req.retries = 1
    /\ req.slept = SleepBaseDelay(2)

\* C20: a response with an HTTP error status other than 429, 502, 503 or
\* 504 ends the fetch at once: the function raises and requests nothing more.
OtherErrorStatusNotRetried ==
    (req.fn \in {"make_request", "make_direct_api_call"} /\ req.last = "4xx") =>
        req.pc = "raised"

\* C18: endpoint fallback is sticky for both AMM ingestors: when a fetch_data
\* call succeeded on candidate i, the next fetch_data call on the same
\* ingestor instance tries candidate i first.
StickyEndpointFallback ==
    \A x \in AmmIngestors :
        ing[x].prev_winner # -1 => ing[x].tried[1] = ing[x].prev_winner

(***************************************************************************)
(* Properties of the parse loop                                            *)
(***************************************************************************)

\* What the try block of parse_swap makes of the i-th event of the page
\* handed to the parse loop last, at the clock it was parsed at.
BodyOfEvent(i) ==
    ParseBody(parsing.source, parsing.page[i],
              now - Len(parsing.page) + i - 1, parsing.price)

\* C15: one bad event never aborts a page: parse_swap raises for no raw event
\* shape, and the swap records submitted for a page are exactly the records
\* of its parseable events, in page order, whatever the other events are.
BadEventNeverAbortsPage ==
    parsing.n > 0 =>
        /\ ~parsing.aborted
        /\ parsing.swap_records =
               SelectSeq([i \in 1..Len(parsing.page) |-> BodyOfEvent(i)],
                         LAMBDA r : r \notin {NoSwap, ParseRaised})

\* A page with an event parse_swap cannot read and a parseable event, whose
\* record has been kept for submission.
WitnessBadEventSkipped ==
    /\ parsing.n > 0
    /\ \E i \in 1..Len(parsing.page) : BodyOfEvent(i) = ParseRaised
    /\ \E i \in 1..Len(parsing.page), k \in 1..Len(parsing.swap_records) :
           parsing.swap_records[k] = BodyOfEvent(i)

(***************************************************************************)
(* Properties of the worker pool                                           *)
(***************************************************************************)

\* C16: a failure or exception in one source's sync_source, one raised while
\* the failure is recorded included, never blocks or cancels another
\* source's run: a submitted source never waits for a worker held back by
\* another, and when sync_all_sources is left every source of the tick has
\* been started, has run to its own end and has had its result taken.
SourceFailureContained ==
    /\ \A src \in ServiceSources :
           pool.fut[src] = "pending" => Cardinality(Busy(pool.fut)) < MaxWorkers
    /\ (pool.main = "idle" /\ pool.tick > 0) =>
           \A src \in ServiceSources :
               pool.fut[src] \in FutureDone /\ src \in pool.collected

\* A tick is over in which one source's sync_source raised and another
\* source returned.
WitnessSourceRaised ==
    /\ pool.main = "idle"
    /\ pool.tick > 0
    /\ \E src, other \in ServiceSources :
           pool.fut[src] = "raised" /\ pool.fut[other] = "returned"

\* C17: at no time are two executions of sync_source for one source in
\* progress: each tick starts each source at most once, and main is outside
\* sync_all_sources, where the next tick starts, only when no execution is
\* in progress.
OneRunPerSource ==
    \A src \in ServiceSources :
        /\ pool.runs[src] <= 1
        /\ pool.main = "idle" => pool.runs[src] = 0

\* A source is executing in a scheduled tick, after the initial sync ran it.
WitnessSecondTickRun ==
    /\ pool.tick = 2
    /\ \E src \in ServiceSources : pool.runs[src] = 1

(***************************************************************************)
(* Properties of a page transition and of an abandoned cycle               *)
(***************************************************************************)

\* C11: the next_page_token stored for a source is null or the next-cursor
\* of a page whose parsed swaps have been persisted: every write of a cursor
\* to sync_status writes the cursor of the page fetched last, after the
\* records of that page, and of every page before it, have been handed to
\* insert_swaps and each has its row in the store.
CursorFollowsPersist ==
    [][\A s \in StatusSources :
          (/\ sync_status'[s].next_page_token # sync_status[s].next_page_token
           /\ sync_status'[s].next_page_token # NoToken) =>
              /\ s = sw'.source
              /\ sync_status'[s].next_page_token = mon'.last_next
              /\ ~mon'.awaiting
              /\ ~mon'.missed
              /\ mon'.kept]_vars

\* Between persist and cursor update: the records of a second page are in
\* the store while sync_status still holds the cursor of the first.
WitnessPersistedBeforeCursor ==
    /\ sw.walker = "sync_source"
    /\ sw.pc = "update"
    /\ sw.pages_processed = 1
    /\ mon.insert_calls = 1
    /\ mon.kept
    /\ sync_status[sw.source].next_page_token = sw.next_page_token
    /\ sw.next_page_token # NoToken

\* A step in which a call of sync_source ends on a failure.
Abandons ==
    sw'.walker = "sync_source" /\ sw'.pc = "done" /\ sw'.stop = "error" /\ sw' # sw

\* C12: when a source's cycle is abandoned at a page nothing is rolled back:
\* no step of sync_source removes or changes a stored row, and the step that
\* abandons the cycle leaves the table as it was.
AbandonedCycleKeepsRows ==
    [][/\ swaps \subseteq swaps'
       /\ Abandons => swaps' = swaps]_vars

\* A second cycle has been abandoned after its first page, with a row of
\* that page and a row of the cycle before it in the store.
WitnessAbandonedAfterCommits ==
    /\ sw.walker = "sync_source"
    /\ sw.stop = "error"
    /\ sw.cycle = 2
    /\ sw.pages_processed >= 1
    /\ Cardinality(swaps) = 2

\* C13: on a page failure the stored error_count of the source becomes one
\* more than the value stored immediately before the failure and last_error
\* records the failure, for every source of sync_source, arkham included.
FailureIncrementsErrorCount ==
    [][\A s \in StatusSources :
          (Abandons /\ sw'.source = s) =>
              /\ sync_status'[s].error_count = sync_status[s].error_count + 1
              /\ sync_status'[s].last_error]_vars

\* C14: a cycle is aborted for a failed batch insert only after the batch
\* has been handed to insert_swaps a second time and failed again.
PersistRetriedOnceBeforeAbort ==
    (/\ sw.walker = "sync_source"
     /\ sw.pc = "done"
     /\ sw.stop = "error"
     /\ mon.awaiting) => mon.insert_calls = 2

(***************************************************************************)
(* Properties of the per-attempt timeout                                   *)
(***************************************************************************)

\* C21: within one network call the timeout of attempt n+1 is strictly
\* greater than the timeout of attempt n: every attempt that is followed by
\* another one leaves a greater timeout= for the next requests.get.
TimeoutGrowsWithRetry ==
    [][(/\ req.pc = "running"
        /\ req'.pc = "running"
        /\ req'.n = req.n
        /\ req'.attempts = req.attempts + 1) => req'.timeout > req.timeout]_vars

(***************************************************************************)
(* Properties of the sync_status row                                       *)
(***************************************************************************)

\* C22: the sync_status row of the source is updated after every page fetch
\* of sync_source, whichever way the page ends: a step in which a page comes
\* back either writes the row or goes on to the update_sync_status call of
\* the page.
PageFetchUpdatesStatus ==
    [][(/\ sw.walker = "sync_source"
        /\ mon'.fetches = mon.fetches + 1) =>
           \/ sw'.pc = "update"
           \/ sync_status'[sw.source] # sync_status[sw.source]]_vars

\* C23: after a run of sync_source the latest_data_timestamp stored for the
\* source is the greatest timestamp over the rows the source has in swaps.
LatestDataTimestampIsNewest ==
    (sw.walker = "sync_source" /\ sw.pc = "done") =>
        LET mine == { r \in swaps : r.source = sw.source }
        IN /\ \A r \in mine : r.timestamp <= sync_status[sw.source].latest_data_timestamp
           /\ mine # {} =>
                 \E r \in mine : r.timestamp = sync_status[sw.source].latest_data_timestamp

(***************************************************************************)
(* Properties of parse_swap on one raw event                               *)
(***************************************************************************)
\* A record was returned by the latest parse_swap call.
Parsed == resolved.n > 0 /\ resolved.swap.kind = "swap"
ParsedByAmm == Parsed /\ resolved.provider \in AmmIngestors

\* C24: the affiliate_addresses list and the affiliate_fees_bps list of
\* every record returned by parse_swap of any provider have the same length.
AffiliateBpsParity ==
    Parsed => Len(resolved.swap.affiliate_addresses) = Len(resolved.swap.affiliate_fees_bps)

\* C25: total_fee_usd >= 0 for every record returned by parse_swap of every
\* provider.
FeeNonNegative ==
    Parsed => resolved.swap.total_fee_usd >= 0

\* The USD values of the two sides of the latest AMM action before the
\* price sanity check, and whether they differ by more than 10% of the
\* larger one.
InputUsd == resolved.raw.in_amount * resolved.raw.inPriceUSD
OutputUsd == resolved.raw.out_amount * resolved.raw.outPriceUSD
Diverging ==
    \/ 10 * (InputUsd - OutputUsd) > InputUsd /\ InputUsd >= OutputUsd
    \/ 10 * (OutputUsd - InputUsd) > OutputUsd /\ OutputUsd >= InputUsd
BothLower ==
    /\ resolved.swap.in_amount_usd = Min(InputUsd, OutputUsd)
    /\ resolved.swap.out_amount_usd = Min(InputUsd, OutputUsd)
BothUnchanged ==
    /\ resolved.swap.in_amount_usd = InputUsd
    /\ resolved.swap.out_amount_usd = OutputUsd

\* C26 as stated: in both AMM parsers, input-USD and output-USD that differ
\* by more than 10% at a slippage below 500 bps both become the lower of
\* the two, and are unchanged otherwise.
ReconciledWheneverDiverging ==
    ParsedByAmm =>
        IF Diverging /\ resolved.raw.swapSlip < 500 THEN BothLower ELSE BothUnchanged

\* C26, amended: in both AMM parsers, input-USD and output-USD that are both
\* positive and differ by more than 10% of the larger one at a swapSlip
\* below 500 bps both become the lower of the two; in every other case,
\* also when one of them is zero, both are unchanged.
ReconciledWhenBothPositive ==
    ParsedByAmm =>
        IF /\ InputUsd > 0 /\ OutputUsd > 0
           /\ Diverging /\ resolved.raw.swapSlip < 500
        THEN BothLower ELSE BothUnchanged

\* 100000 against 80000 at 200 bps has become 80000 and 80000.
WitnessReconciledToLower ==
    /\ ParsedByAmm
    /\ InputUsd = 100000 /\ OutputUsd = 80000 /\ resolved.raw.swapSlip = 200
    /\ resolved.swap.in_amount_usd = 80000

\* The memo of the latest AMM action carries one decimal bps per piece of
\* the affiliate string.
OneBpsPerCode ==
    /\ resolved.raw.memo.parts >= 6
    /\ Len(resolved.raw.memo.last) = Len(resolved.raw.affiliateAddress)
    /\ \A k \in 1..Len(resolved.raw.memo.last) : resolved.raw.memo.last[k] \in {"10", "35"}

\* C27: for an affiliate string of several codes and a memo with one bps
\* per code, the resolved bps is the memo's entry at the index of the
\* platform's code in the affiliate string.
DualAffiliateBpsByIndex ==
    (/\ resolved.n > 0
     /\ resolved.provider \in AmmIngestors
     /\ resolved.info.kind = "info"
     /\ OneBpsPerCode) =>
        \A i \in 1..Len(resolved.raw.affiliateAddress) :
            (/\ resolved.raw.affiliateAddress[i] = resolved.info.address
             /\ \A j \in 1..(i - 1) :
                    resolved.raw.affiliateAddress[j] # resolved.info.address) =>
                resolved.info.bps =
                    (IF resolved.raw.memo.last[i] = "10" THEN 10 ELSE 35)

\* 'EXTREF/vi' with memo bps '10/35' has resolved to 35.
WitnessSecondBpsResolved ==
    /\ resolved.n > 0
    /\ resolved.raw.affiliateAddress = <<"EXTREF", "vi">>
    /\ resolved.raw.memo.last = <<"10", "35">>
    /\ resolved.info.kind = "info"
    /\ resolved.info.bps = 35

\* C28: for every affiliate string and memo _extract_vultisig_affiliate
\* returns a value or None; it never raises.
ResolverNeverRaises ==
    resolved.info.kind # "raised"

\* The stored affiliate_addresses hold an entry that is a platform code,
\* in the spelling of the code or of the affiliate string.
HoldsPlatformEntry ==
    \E k \in 1..Len(resolved.swap.affiliate_addresses) :
        resolved.swap.affiliate_addresses[k] \in {"vi", "va", "v0", "VI", " VI"}

\* C29 as stated: the affiliate_addresses of every parsed Swap of every
\* provider contain the platform's own affiliate entry.
PlatformEntryStored ==
    Parsed => HoldsPlatformEntry

\* C29, amended: the affiliate_addresses of every Swap parsed by the two
\* AMM parsers contain the platform's own affiliate entry, also when no
\* external referrer is present; the LiFi parser stores an empty list.
PlatformEntryStoredByAmm ==
    /\ ParsedByAmm => HoldsPlatformEntry
    /\ (Parsed /\ resolved.provider = "lifi") => resolved.swap.affiliate_addresses = <<>>

\* THORChain has parsed a swap whose only affiliate is ' VI': the filter on
\* the affiliate string finds nothing and the resolved code is stored.
WitnessResolvedCodeStored ==
    /\ ParsedByAmm
    /\ resolved.provider = "thorchain"
    /\ resolved.raw.affiliateAddress = <<" VI">>
    /\ resolved.swap.affiliate_addresses = <<"vi">>

\* The fee output of the latest AMM action priced in its asset, -1 when the
\* asset is none of RUNE, input asset and output asset.
FeeOutputUsd ==
    LET raw == resolved.raw
        fee == raw.fee_out
    IN IF fee.asset = "THOR.RUNE" THEN fee.amount * raw.runePriceUSD
       ELSE IF fee.asset = raw.in_asset THEN fee.amount * raw.inPriceUSD
       ELSE IF fee.asset = raw.out_asset THEN fee.amount * raw.outPriceUSD
       ELSE -1
BpsFeeUsd ==
    (resolved.info.bps * resolved.swap.in_amount_usd) \div 10000

\* C30 as stated: in both AMM parsers affiliate_fee_usd is the priced amount
\* of the affiliate output whenever that amount can be priced.
AffiliateFeeFromAmount ==
    (ParsedByAmm /\ FeeOutputUsd > 0) =>
        resolved.swap.affiliate_fee_usd = FeeOutputUsd

\* C30, amended: in the THORChain parser affiliate_fee_usd is the amount of
\* the affiliate output times the price of its asset when that asset is
\* RUNE, the input asset or the output asset, and bps / 10000 * input USD
\* for any other asset; in the MayaChain parser it is always
\* bps / 10000 * input USD.
AffiliateFeeByProvider ==
    ParsedByAmm =>
        resolved.swap.affiliate_fee_usd =
            (IF resolved.provider = "thorchain" /\ FeeOutputUsd >= 0
             THEN FeeOutputUsd ELSE BpsFeeUsd)

\* MayaChain has parsed a swap with a RUNE affiliate output worth 6 USD and
\* stored 35 bps of 80000 USD.
WitnessMayachainBpsFee ==
    /\ ParsedByAmm
    /\ resolved.provider = "mayachain"
    /\ FeeOutputUsd = 6
    /\ resolved.swap.affiliate_fee_usd = 280

\* C35: within one make_request call the first 502/503/504 response is
\* followed by one retry, whatever rate limits or timeouts came before it in
\* the call: the attempt that meets the first gateway error leaves the call
\* running.
FirstServerErrorRetried ==
    [][(/\ req.fn = "make_request"
        /\ req.pc = "running"
        /\ req'.n = req.n
        /\ req'.attempts = req.attempts + 1
        /\ req'.last = "5xx"
        /\ req.server_errors = 0)
           => req'.pc = "running"]_vars

\* C37: for every THORChain swap, the stored affiliate_fees_bps holds
\* vultisig_bps, the rate resolved for the platform and used for the fee, at
\* the position the platform's code has in the stored affiliate_addresses.
StoredBpsIsResolvedBps ==
    (Parsed /\ resolved.provider = "thorchain") =>
        \E i \in 1..Len(resolved.swap.affiliate_addresses) :
            /\ Lower(resolved.swap.affiliate_addresses[i]) = resolved.info.code
            /\ i <= Len(resolved.swap.affiliate_fees_bps)
            /\ resolved.swap.affiliate_fees_bps[i] = resolved.info.bps

\* A THORChain action reached the pricing of a RUNE affiliate output and no
\* RUNE price was to be had: the history lookup yielded none (or failed)
\* and neither side of the swap is RUNE with a price.
RunePriceMissing ==
    /\ resolved.n > 0
    /\ resolved.provider = "thorchain"
    /\ resolved.info.kind = "info"
    /\ resolved.raw.fee_out.present
    /\ resolved.raw.fee_out.asset = "THOR.RUNE"
    /\ resolved.raw.runePriceUSD = 0
    /\ ~(resolved.raw.in_asset = "THOR.RUNE" /\ resolved.raw.inPriceUSD > 0)
    /\ ~(resolved.raw.out_asset = "THOR.RUNE" /\ resolved.raw.outPriceUSD > 0)

BatchIsAtomic ==
    [][/\ \A w \in Workers :
              (conn[w].pc = "open" /\ ret'[w].kind = "raised") => swaps' = swaps
       /\ swaps' # swaps =>
              \/ \E w \in Workers : /\ conn[w].pc = "open"
                                     /\ conn'[w].pc = "idle"
                                     /\ ret'[w].kind = "ok"
                                     /\ swaps' = swaps \cup conn[w].pending
              \/ calls' = calls + 1 /\ conn' = conn
       /\ \A w \in Workers : conn[w].pending \cap swaps = {}]_vars

WitnessRaisedBatchLeftNothing ==
    /\ uq_tx_hash
    /\ calls = 1
    /\ reprocessed = "none"
    /\ \E w \in Workers : ret[w].kind = "raised" /\ conn[w].pc = "idle"
    /\ swaps = {}

\* C34: every sync_source run for a paginated source terminates: whatever
\* the provider returns (a next cursor and new rows on every page included)
\* the run fetches at most 10 pages, and with the tenth page processed it
\* is over.
SyncSourceFetchesAtMostTenPages ==
    sw.walker = "sync_source" =>
        /\ mon.fetches <= SyncMaxPages
        /\ sw.pages_processed <= SyncMaxPages
        /\ sw.pages_processed = SyncMaxPages => sw.pc = "done"
        /\ sw.pc \in {"fetch", "update"} => mon.fetches <= sw.pages_processed + 1

WitnessStoppedAtTenthPage ==
    /\ sw.walker = "sync_source"
    /\ sw.pc = "done"
    /\ sw.stop = "max_pages"
    /\ mon.fetches = SyncMaxPages
    /\ mon.last_next # NoToken
    /\ mon.zero_run = 0

\* The records parse_swap returns for the actions that come before the one
\* on which the stop test fired, on the page the walk stopped at.
ParsedBeforeStop ==
    SwapRecords("thorchain",
                SubSeq(sw.data.events, 1,
                       FirstSaved(sw.data.events, sw.last_saved_date) - 1),
                now, 10)

StoppedAtSavedData ==
    /\ sw.walker = "full_historical_sync"
    /\ sw.pc = "done"
    /\ sw.stop = "last_saved_date"

StableComplete ==
    \A k \in 1..Len(StablePages) :
        \A i \in 1..Len(StablePages[k]) :
            \E r \in swaps : r.source = "thorchain" /\ r.tx_hash = StablePages[k][i].txID

\* C32: against a provider whose newest-first list has stopped changing,
\* repeated sync_source cycles that are free of failures from some cycle on
\* eventually store every event that parses to a swap, also after an
\* earlier cycle was abandoned at a page with the pages before it inserted.
EventuallyComplete ==
    <>StableComplete

\* C38: every transfer the provider lists with a timestamp later than the
\* newest stored one is eventually stored by repeated ingest runs, also
\* after a run whose pagination was cut short by a request failure with
\* the newest pages already fetched and stored.
NewerTransfersEventuallyStored ==
    \A t \in 1..MaxTransfers :
        (/\ t <= arkham.listed
         /\ arkham.rows # {}
         /\ t > LatestTimestamp(arkham.rows, TRUE))
            ~> (t \in arkham.rows)

====
